---- MODULE Spec2Model ----
(***************************************************************************)
(* Login risk detection and notification engine of the mail system.        *)
(*                                                                         *)
(*   SecurityNotificationService  (utils/securityNotification.js)          *)
(*   PATCH /alerts/:id/resolve    (routes/security.js)                     *)
(*   GeoLocationService           (utils/geolocation.js)                   *)
(*   LoginAnomalyDetector         (utils/loginAnomalyDetector.js)          *)
(*   POST /login, POST /logout    (routes/auth.js)                         *)
(*   POST /terminate-session      (routes/security.js)                     *)
(*   PUT /config                  (routes/security.js)                     *)
(*                                                                         *)
(* Every action is one synchronous segment of a handler: the code that     *)
(* runs between two awaits on Node's single thread, together with the      *)
(* database statement or external call whose completion resumes it.        *)
(***************************************************************************)
EXTENDS Integers, Sequences, FiniteSets, TLC

NULL == "null"

\* a time column or field that holds no time
NullTime == 0 - 1

(***************************************************************************)
(* Bounds of the model.                                                    *)
(***************************************************************************)
\* createSecurityAlert invocations
MaxCalls == 3
\* active administrators in the users table
MaxAdmins == 2
\* clock ticks of the notification specification
MaxNotifyTicks == 3

\* sendMail calls that are rejected
MaxSendFailures == 1

\* rows of security_alerts stored before the process started
StoredAlerts == 1
\* PATCH /alerts/:id/resolve requests
MaxResolveRequests == 3
\* clock ticks of the resolve specification
MaxResolveTicks == 2

\* the providers' rateLimit values (45, 50000 and 1000 in the table), scaled down
RateLimitIpapi == 2
RateLimitIpinfo == 3
RateLimitMaxmind == 2
\* clock ticks of the geolocation specification: 40 seconds each, up to this many
\* in a row, and half days
MaxGeoSmallTicks == 2
MaxGeoBigTicks == 2
\* conditions.max_attempts of the login frequency rule, scaled down
MaxAttempts == 2
\* rows of user_login_logs left by earlier logins
StoredLogins == 2
\* clock ticks of the login specification, 20 minutes each
MaxLoginTicks == 2

\* the largest totalRiskScore createLoginAnomalyAlert is called with
MaxRiskScore == 100
\* createSecurityAlert invocations where two callers suffice
MaxFewCalls == 2

Calls == 1..MaxCalls

\* getLocationInfo invocations in flight: two callers
GeoCalls == {1, 2}

GeoSmallStepMs == 40 * 1000

GeoBigStepMs == 12 * 60 * 60 * 1000


Requests == 1..MaxResolveRequests

\* req.user.id of the administrators sending resolve requests
ResolverIds == {1, 2}

\* the clock advances by a second in the resolve specification
ResolveSteps == {1000}

\* the clock advances by half the queue spacing in the notification specification
NotifySteps == {500}

Severities == {"low", "medium", "high", "critical"}

\* the severities createSecurityAlert is called with in the notification specification
NotifySeverities == {"high"}

VARIABLES
  now,               \* Date.now() / NOW(), milliseconds
  emailTransporter,  \* this.emailTransporter
  alertQueue,        \* this.alertQueue: the queued alert ids
  isProcessing,      \* this.isProcessing
  alerts,            \* table security_alerts, row i has id i
  settings,          \* table security_settings
  administrators,    \* users WHERE is_admin AND is_active, in result order
  call,              \* createSecurityAlert invocations
  drain,             \* processNotificationQueue invocations, one per call
  pushed,            \* history: alert ids in the order of alertQueue.push
  handed,            \* history: alert ids in the order of sendNotifications(alert)
  sendLog,           \* history: emailTransporter.sendMail calls
  lastSendAt,        \* history: the time of the latest sendMail call
  request,           \* PATCH /alerts/:id/resolve requests
  currentProvider,   \* this.currentProvider
  rateLimitCounter,  \* this.rateLimitCounter: entries minute -> count
  geoCache,          \* table ip_geolocation_cache, by address
  geoCall,           \* getLocationInfo invocations
  apiCalls,          \* history: times of the axios.get calls of the last minute
  riskRules,         \* this.riskRules: the Map rule name -> rule
  ruleStore,         \* table login_risk_rules, by rule name
  loadCall,          \* loadRiskRules invocations
  loginLogs,         \* table user_login_logs, row i has id i
  trustedDevices,    \* table user_trusted_devices: the (user, fingerprint) keys
  loginSettings,     \* table security_settings, the keys the login path concerns
  userSessions,      \* table user_sessions: the users of its rows
  ended,             \* history: the session hashes whose logout or termination was answered
  login,             \* POST /login requests
  distanceCall,      \* a calculateDistance invocation: its arguments and what it returned
  configValues,      \* table security_settings: setting_value of the rows PUT /config is followed on
  configRequest      \* a PUT /config request and the UPDATEs it issued

vars == <<now, emailTransporter, alertQueue, isProcessing, alerts, settings,
          administrators, call, drain, pushed, handed, sendLog, lastSendAt, request,
          currentProvider, rateLimitCounter, geoCache, geoCall, apiCalls,
          riskRules, ruleStore, loadCall, loginLogs, trustedDevices, loginSettings,
          userSessions, ended, login, distanceCall, configValues, configRequest>>

loginVars == <<riskRules, ruleStore, loadCall, loginLogs, trustedDevices, loginSettings,
               userSessions, ended, login>>

geoVars == <<currentProvider, rateLimitCounter, geoCache, geoCall, apiCalls>>

\* what only the calls made on their own concern
asideVars == <<distanceCall, configValues, configRequest>>

\* what the notification service leaves alone
outsideNotify == <<request, asideVars, geoVars, loginVars>>

\* what the resolve route leaves alone
outsideResolve == <<asideVars, emailTransporter, alertQueue, isProcessing, settings, administrators,
                    call, drain, pushed, handed, sendLog, lastSendAt, geoVars, loginVars>>

\* what the geolocation service leaves alone
outsideGeo == <<emailTransporter, alertQueue, isProcessing, alerts, settings, administrators,
                call, drain, pushed, handed, sendLog, lastSendAt, request, asideVars, loginVars>>

(***************************************************************************)
(* SecurityNotificationService                                             *)
(***************************************************************************)

\* The queue spacing: setTimeout(resolve, 1000)
QueueSpacingMs == 1000

IdleCall == [pc |-> "idle", alertId |-> 0, severity |-> NULL]

IdleDrain == [pc |-> "idle", alert |-> 0, admins |-> <<>>, idx |-> 0, entry |-> 0, timer |-> 0]

\* A row of security_alerts as INSERTed by createSecurityAlert: the resolution
\* columns take their defaults.
NewAlertRow(sev) ==
  [severity |-> sev, is_resolved |-> FALSE, resolved_by |-> NULL,
   resolved_at |-> NullTime, resolution_notes |-> NULL]

\* initializeEmailTransporter: nodemailer exports createTransport; the call
\* nodemailer.createTransporter(...) throws a TypeError unless the loaded
\* library provides that name, and the catch leaves emailTransporter null.
InitializeEmailTransporter(libraryHasCreateTransporter) ==
  IF libraryHasCreateTransporter THEN "transporter" ELSE NULL

SeverityThresholdAll(sev) == sev \in {"low", "medium", "high", "critical"}

\* severityThresholds[severity] || false
SeverityThreshold(sev) ==
  CASE sev = "low" -> FALSE
    [] sev = "medium" -> TRUE
    [] sev = "high" -> TRUE
    [] sev = "critical" -> TRUE
    [] OTHER -> FALSE

\* shouldSendNotification: readOk is false when the settings query throws;
\* value is NULL when the query returns no row.
ShouldSendNotification(readOk, value, sev) ==
  IF ~readOk THEN FALSE
  ELSE IF value = NULL \/ value # "true" THEN FALSE
  ELSE SeverityThreshold(sev)

\* processNotificationQueue, line 114: the early return is taken unless this holds
DrainGuardNoFlag(processing, queue) == queue # <<>>

\* processNotificationQueue with the test of the flag inverted
DrainGuardBusyOnly(processing, queue) == processing /\ queue # <<>>

DrainGuard(processing, queue) == ~processing /\ queue # <<>>

\* this.alertQueue.shift(): the element removed and the queue left
ShiftLast(queue) == [item |-> queue[Len(queue)], rest |-> SubSeq(queue, 1, Len(queue) - 1)]

\* this.alertQueue.shift() leaving the element in the queue
ShiftKeep(queue) == [item |-> Head(queue), rest |-> queue]

Shift(queue) == [item |-> Head(queue), rest |-> Tail(queue)]

\* createSecurityAlert, lines 35-61: the call starts and the INSERT runs; a
\* failed INSERT is rethrown to the caller. Calls are numbered in the order in
\* which they are made.
CreateSecurityAlertInsert(c, sev, insertOk) ==
  /\ call[c].pc = "idle"
  /\ \A b \in Calls : b < c => call[b].pc # "idle"
  /\ IF insertOk
       THEN /\ alerts' = Append(alerts, NewAlertRow(sev))
            /\ call' = [call EXCEPT ![c] = [pc |-> "inserted", alertId |-> Len(alerts) + 1,
                                            severity |-> sev]]
       ELSE /\ alerts' = alerts
            /\ call' = [call EXCEPT ![c] = [pc |-> "threw", alertId |-> 0, severity |-> sev]]
  /\ UNCHANGED <<now, emailTransporter, alertQueue, isProcessing, settings,
                 administrators, drain, pushed, handed, sendLog, lastSendAt, outsideNotify>>

\* createSecurityAlert, lines 63-78: shouldSendNotification resolves, the alert is
\* pushed, processNotificationQueue runs up to its first await (inside
\* sendNotifications -> getAdministrators) and the alert id is returned.
CreateSecurityAlertNotify(c, readOk) ==
  /\ call[c].pc = "inserted"
  /\ LET id == call[c].alertId
         shouldNotify == ShouldSendNotification(readOk, settings.alert_administrators,
                                                call[c].severity)
         queue1 == IF shouldNotify THEN Append(alertQueue, id) ELSE alertQueue
         starts == shouldNotify /\ DrainGuard(isProcessing, queue1)
         sh == Shift(queue1)
     IN /\ pushed' = IF shouldNotify THEN Append(pushed, id) ELSE pushed
        /\ IF starts
             THEN /\ isProcessing' = TRUE
                  /\ alertQueue' = sh.rest
                  /\ handed' = Append(handed, sh.item)
                  /\ drain' = [drain EXCEPT ![c] = [IdleDrain EXCEPT !.pc = "getAdministrators",
                                                                     !.alert = sh.item]]
             ELSE /\ alertQueue' = queue1
                  /\ UNCHANGED <<isProcessing, handed, drain>>
        /\ call' = [call EXCEPT ![c].pc = "returned"]
  /\ UNCHANGED <<now, emailTransporter, alerts, settings, administrators, sendLog,
                 lastSendAt, outsideNotify>>

\* processNotificationQueue, line 126: sendNotifications(alert) has returned and
\* the loop awaits the timer
Sleep(d) == [d EXCEPT !.pc = "sleep", !.timer = now]

\* sendEmailNotifications, lines 203-209: one sendMail call, as logged
SendMailCall(alert, admin) == [alert |-> alert, to |-> admin, result |-> "pending"]

\* sendNotifications, lines 139-144: getAdministrators resolves (with [] when its
\* query throws); with no administrator sendNotifications returns.
DrainGetAdministrators(c, queryOk) ==
  /\ drain[c].pc = "getAdministrators"
  /\ LET admins == IF queryOk THEN administrators ELSE <<>>
     IN drain' = [drain EXCEPT ![c] =
                    IF admins = <<>> THEN Sleep(@)
                    ELSE [@ EXCEPT !.pc = "getUserInfo", !.admins = admins]]
  /\ UNCHANGED <<now, emailTransporter, alertQueue, isProcessing, alerts, settings,
                 administrators, call, pushed, handed, sendLog, lastSendAt, outsideNotify>>

\* sendNotifications, lines 147-150, and sendEmailNotifications, lines 188-195:
\* getUserInfo resolves; without a transporter sendEmailNotifications returns at
\* once, otherwise it awaits getEmailTemplate.
DrainGetUserInfo(c) ==
  /\ drain[c].pc = "getUserInfo"
  /\ drain' = [drain EXCEPT ![c] =
                 IF emailTransporter = NULL THEN Sleep(@)
                 ELSE [@ EXCEPT !.pc = "getEmailTemplate"]]
  /\ UNCHANGED <<now, emailTransporter, alertQueue, isProcessing, alerts, settings,
                 administrators, call, pushed, handed, sendLog, lastSendAt, outsideNotify>>

\* sendEmailNotifications, lines 195-203: the template resolves and the content is
\* prepared; when prepareEmailContent throws (a stored template without subject or
\* body) the outer catch ends the batch, otherwise the first sendMail is issued.
DrainGetEmailTemplate(c, contentOk) ==
  /\ drain[c].pc = "getEmailTemplate"
  /\ IF contentOk
       THEN /\ sendLog' = Append(sendLog, SendMailCall(drain[c].alert, drain[c].admins[1]))
            /\ lastSendAt' = now
            /\ drain' = [drain EXCEPT ![c] = [@ EXCEPT !.pc = "sendMail", !.idx = 1,
                                                       !.entry = Len(sendLog) + 1]]
       ELSE /\ drain' = [drain EXCEPT ![c] = Sleep(@)]
            /\ UNCHANGED <<sendLog, lastSendAt>>
  /\ UNCHANGED <<now, emailTransporter, alertQueue, isProcessing, alerts, settings,
                 administrators, call, pushed, handed, outsideNotify>>

\* The for loop of sendEmailNotifications after a rejected sendMail: the inner
\* catch logs and the loop goes on with the next administrator.
NextRecipientAbortOnFailure(d, ok) == IF ok /\ d.idx < Len(d.admins) THEN d.idx + 1 ELSE 0

\* The administrator the for loop of lines 201-215 turns to after the sendMail
\* to d.admins[d.idx] has settled, 0 when the list is exhausted.
NextRecipient(d, ok) == IF d.idx < Len(d.admins) THEN d.idx + 1 ELSE 0

\* sendEmailNotifications, lines 201-215: a sendMail settles (resolved or
\* rejected) and the next one is issued; after the last one the batch is over.
DrainSendMailSettled(c, ok) ==
  /\ drain[c].pc = "sendMail"
  /\ ok \/ Cardinality({i \in 1..Len(sendLog) : sendLog[i].result = "failed"}) < MaxSendFailures
  /\ LET d == drain[c]
         settled == [sendLog EXCEPT ![d.entry].result = IF ok THEN "sent" ELSE "failed"]
         next == NextRecipient(d, ok)
     IN IF next # 0
          THEN /\ sendLog' = Append(settled, SendMailCall(d.alert, d.admins[next]))
               /\ lastSendAt' = now
               /\ drain' = [drain EXCEPT ![c] = [@ EXCEPT !.idx = next,
                                                          !.entry = Len(sendLog) + 1]]
          ELSE /\ sendLog' = settled
               /\ drain' = [drain EXCEPT ![c] = Sleep(@)]
               /\ UNCHANGED lastSendAt
  /\ UNCHANGED <<now, emailTransporter, alertQueue, isProcessing, alerts, settings,
                 administrators, call, pushed, handed, outsideNotify>>

\* processNotificationQueue, lines 121-132: the timer fires; the loop takes the
\* next alert, or leaves and the finally block clears isProcessing.
DrainWake(c) ==
  /\ drain[c].pc = "sleep"
  /\ now >= drain[c].timer + QueueSpacingMs
  /\ IF alertQueue # <<>>
       THEN LET sh == Shift(alertQueue)
            IN /\ alertQueue' = sh.rest
               /\ handed' = Append(handed, sh.item)
               /\ drain' = [drain EXCEPT ![c] = [IdleDrain EXCEPT !.pc = "getAdministrators",
                                                                  !.alert = sh.item]]
               /\ UNCHANGED isProcessing
       ELSE /\ isProcessing' = FALSE
            /\ drain' = [drain EXCEPT ![c] = IdleDrain]
            /\ UNCHANGED <<alertQueue, handed>>
  /\ UNCHANGED <<now, emailTransporter, alerts, settings, administrators, call,
                 pushed, sendLog, lastSendAt, outsideNotify>>

\* Time passes.
TickNotify ==
  /\ \E d \in NotifySteps :
       /\ now < MaxNotifyTicks * d
       /\ now' = now + d
  /\ UNCHANGED <<emailTransporter, alertQueue, isProcessing, alerts, settings,
                 administrators, call, drain, pushed, handed, sendLog, lastSendAt, outsideNotify>>

(***************************************************************************)
(* PATCH /alerts/:id/resolve                                               *)
(***************************************************************************)

IdleRequest == [pc |-> "idle", alertId |-> 0, by |-> 0, status |-> 0]

\* The route handler's answer to the SELECT, lines 154-164, without the
\* is_resolved test: 0 stands for going on to resolveAlert.
ResolveDecisionNoResolvedTest(rows) ==
  IF rows = <<>> THEN 404 ELSE 0

\* The route handler's answer to the SELECT, lines 154-164: 404, 400, or 0 for
\* going on to resolveAlert.
ResolveDecision(rows) ==
  IF rows = <<>> THEN 404
  ELSE IF rows[1].is_resolved THEN 400
  ELSE 0

\* SELECT id, is_resolved FROM security_alerts WHERE id = ?
SelectAlert(alertId) ==
  IF alertId \in 1..Len(alerts) THEN <<alerts[alertId]>> ELSE <<>>

\* resolveAlert, lines 427-430: the UPDATE, which has no condition on is_resolved
UpdateResolved(row, resolvedBy, resolutionNotes) ==
  [row EXCEPT !.is_resolved = TRUE, !.resolved_by = resolvedBy, !.resolved_at = now,
              !.resolution_notes = resolutionNotes]

\* The notes an administrator sends: each administrator writes their own
NotesOf(by) == <<"notes", by>>

\* Route handler, lines 143-164: the request arrives and the SELECT runs; the
\* handler answers 404 or 400, or 500 when the query throws, or calls resolveAlert.
\* Requests are numbered in the order in which they arrive.
ResolveSelect(r, alertId, by, queryOk) ==
  /\ request[r].pc = "idle"
  /\ \A q \in Requests : q < r => request[q].pc # "idle"
  /\ LET answer == IF queryOk THEN ResolveDecision(SelectAlert(alertId)) ELSE 500
     IN request' = [request EXCEPT ![r] =
                      [pc |-> IF answer = 0 THEN "resolveAlert" ELSE "done",
                       alertId |-> alertId, by |-> by, status |-> answer]]
  /\ UNCHANGED <<now, alerts, outsideResolve>>

\* resolveAlert, lines 425-437, and the route handler, lines 167-179: the UPDATE
\* runs and the handler answers 200, or 500 when the UPDATE throws.
ResolveUpdate(r, queryOk) ==
  /\ request[r].pc = "resolveAlert"
  /\ IF queryOk
       THEN /\ alerts' = [alerts EXCEPT ![request[r].alertId] =
                            UpdateResolved(@, request[r].by, NotesOf(request[r].by))]
            /\ request' = [request EXCEPT ![r] = [@ EXCEPT !.pc = "done", !.status = 200]]
       ELSE /\ alerts' = alerts
            /\ request' = [request EXCEPT ![r] = [@ EXCEPT !.pc = "done", !.status = 500]]
  /\ UNCHANGED <<now, outsideResolve>>

TickResolve ==
  /\ \E d \in ResolveSteps :
       /\ now < MaxResolveTicks * d
       /\ now' = now + d
  /\ UNCHANGED <<alerts, request, outsideResolve>>

(***************************************************************************)
(* GeoLocationService                                                      *)
(***************************************************************************)

\* An IP address is the sequence of its characters.
Digits == {"0", "1", "2", "3", "4", "5", "6", "7", "8", "9"}

HexChars == <<"0", "1", "2", "3", "4", "5", "6", "7", "8", "9", "a", "b", "c", "d", "e", "f">>

UpperHexChars == <<"0", "1", "2", "3", "4", "5", "6", "7", "8", "9", "A", "B", "C", "D", "E", "F">>

\* [0-9a-fA-F]
HexDigits == {HexChars[i] : i \in 1..16} \cup {UpperHexChars[i] : i \in 1..16}

\* The addresses getLocationInfo is called with.
SampleIPs ==
  << <<"8", ".", "8", ".", "8", ".", "8">>,
     <<"1", "0", ".", "0", ".", "0", ".", "1">>,
     <<"1", "7", "2", ".", "1", "6", ".", "0", ".", "1">>,
     <<"1", "9", "2", ".", "1", "6", "8", ".", "1", ".", "1">>,
     <<"1", "2", "7", ".", "0", ".", "0", ".", "1">>,
     <<"1", "6", "9", ".", "2", "5", "4", ".", "1", ".", "1">>,
     <<"2", "5", "6", ".", "1", ".", "1", ".", "1">>,
     <<":", ":", "1">>,
     <<"f", "e", "8", "0", ":", "0", ":", "0", ":", "0", ":", "0", ":", "0", ":", "0", ":", "1">>,
     <<"0", ":", "0", ":", "0", ":", "0", ":", "0", ":", "0", ":", "0", ":", "1">> >>

IPs == 1..Len(SampleIPs)

\* the addresses of the calls in the specification with a clock: 8.8.8.8 and 10.0.0.1
TimedIPs == {1, 2}

\* The pieces of s between the occurrences of sep.
RECURSIVE Split(_, _)
Split(s, sep) ==
  IF \A i \in 1..Len(s) : s[i] # sep THEN <<s>>
  ELSE LET k == CHOOSE i \in 1..Len(s) : s[i] = sep /\ \A j \in 1..(i - 1) : s[j] # sep
       IN <<SubSeq(s, 1, k - 1)>> \o Split(SubSeq(s, k + 1, Len(s)), sep)

StartsWith(s, prefix) ==
  Len(s) >= Len(prefix) /\ SubSeq(s, 1, Len(prefix)) = prefix

\* 25[0-5]|2[0-4][0-9]|[01]?[0-9][0-9]?
OctetPattern(t) ==
  /\ \A i \in 1..Len(t) : t[i] \in Digits
  /\ \/ Len(t) \in {1, 2}
     \/ Len(t) = 3 /\ t[1] = "2" /\ t[2] = "5" /\ t[3] \in {"0", "1", "2", "3", "4", "5"}
     \/ Len(t) = 3 /\ t[1] = "2" /\ t[2] \in {"0", "1", "2", "3", "4"}
     \/ Len(t) = 3 /\ t[1] \in {"0", "1"}

\* isValidIP: ipv4Regex.test(ip) || ipv6Regex.test(ip)
IsValidIP(ip) ==
  LET quads == Split(ip, ".")
      groups == Split(ip, ":")
  IN \/ Len(quads) = 4 /\ \A i \in 1..4 : OctetPattern(quads[i])
     \/ /\ Len(groups) = 8
        /\ \A i \in 1..8 : /\ Len(groups[i]) \in 1..4
                           /\ \A j \in 1..Len(groups[i]) : groups[i][j] \in HexDigits

\* isPrivateIP: privateRanges.some(range => range.test(ip))
IsPrivateIP(ip) ==
  \/ StartsWith(ip, <<"1", "0", ".">>)
  \/ /\ StartsWith(ip, <<"1", "7", "2", ".">>)
     /\ Len(ip) >= 7
     /\ \/ ip[5] = "1" /\ ip[6] \in {"6", "7", "8", "9"}
        \/ ip[5] = "2" /\ ip[6] \in Digits
        \/ ip[5] = "3" /\ ip[6] \in {"0", "1"}
     /\ ip[7] = "."
  \/ StartsWith(ip, <<"1", "9", "2", ".", "1", "6", "8", ".">>)
  \/ StartsWith(ip, <<"1", "2", "7", ".">>)
  \/ StartsWith(ip, <<"1", "6", "9", ".", "2", "5", "4", ".">>)
  \/ ip = <<":", ":", "1">>
  \/ StartsWith(ip, <<"f", "c", "0", "0", ":">>)
  \/ StartsWith(ip, <<"f", "e", "8", "0", ":">>)

\* getDefaultLocationInfo
DefaultLocationInfo ==
  [country |-> "Unknown", region |-> "Unknown", city |-> "Unknown",
   latitude |-> NULL, longitude |-> NULL, timezone |-> NULL, isp |-> "Unknown",
   is_proxy |-> FALSE, is_vpn |-> FALSE, is_tor |-> FALSE, threat_level |-> "low"]

\* normalizeResponse, lines 537-549: the value `normalized` starts with
InitialNormalized ==
  [country |-> NULL, region |-> NULL, city |-> NULL,
   latitude |-> NULL, longitude |-> NULL, timezone |-> NULL, isp |-> NULL,
   is_proxy |-> FALSE, is_vpn |-> FALSE, is_tor |-> FALSE, threat_level |-> "low"]

Providers == {"ipapi", "ipinfo", "maxmind"}

\* process.env.GEOLOCATION_PROVIDER || 'ipapi': a provider of the table or
\* another name
ProviderSettings == Providers \cup {"other"}

\* this.providers[p].rateLimit, scaled down
ProviderRateLimit(p) ==
  CASE p = "ipapi" -> RateLimitIpapi
    [] p = "ipinfo" -> RateLimitIpinfo
    [] p = "maxmind" -> RateLimitMaxmind

\* const maxAge = 24 * 60 * 60 * 1000
CacheMaxAgeMs == 24 * 60 * 60 * 1000

\* const windowStart = now - 60000
RateWindowMs == 60000

\* What the upstream answers with a 2xx status: the expected body, a body that
\* reports failure (ip-api's status "fail"), a body that is not the expected
\* object, or no body at all.
PayloadKinds == {"success", "fail", "malformed", "empty"}

\* A JavaScript value is falsy
Falsy(v) == v \in {"undefined", "null", "false", "NaN", "0", ""}

\* response.data of provider p
Payload(p, kind) ==
  CASE p = "ipapi" /\ kind = "success" ->
         [status |-> "success", country |-> "United States", regionName |-> "California",
          city |-> "Mountain View", lat |-> "37.42", lon |-> "-122.08",
          timezone |-> "America/Los_Angeles", isp |-> "Google LLC", proxy |-> "false"]
    [] p = "ipapi" /\ kind = "fail" ->
         [status |-> "fail", country |-> "undefined", regionName |-> "undefined",
          city |-> "undefined", lat |-> "undefined", lon |-> "undefined",
          timezone |-> "undefined", isp |-> "undefined", proxy |-> "undefined"]
    [] p = "ipapi" ->
         [status |-> "undefined", country |-> "undefined", regionName |-> "undefined",
          city |-> "undefined", lat |-> "undefined", lon |-> "undefined",
          timezone |-> "undefined", isp |-> "undefined", proxy |-> "undefined"]
    [] p = "ipinfo" /\ kind = "success" ->
         [country |-> "US", region |-> "California", city |-> "Mountain View",
          loc |-> <<"37.42", "-122.08">>, timezone |-> "America/Los_Angeles",
          org |-> "AS15169 Google LLC"]
    [] p = "ipinfo" ->
         [country |-> "undefined", region |-> "undefined", city |-> "undefined",
          loc |-> <<>>, timezone |-> "undefined", org |-> "undefined"]
    [] OTHER -> [body |-> kind]

\* parseFloat(x) || null, for the texts the payloads hold
ParseFloatOrNull(x) == IF Falsy(x) THEN NULL ELSE x

\* normalizeResponse throws: data.status or data.loc of a null body
NormalizeThrows(p, kind) == kind = "empty" /\ p \in {"ipapi", "ipinfo"}

\* normalizeResponse
NormalizeResponse(p, data) ==
  IF p = "ipapi" THEN
    IF data.status = "success" THEN
      [country |-> data.country, region |-> data.regionName, city |-> data.city,
       latitude |-> data.lat, longitude |-> data.lon, timezone |-> data.timezone,
       isp |-> data.isp, is_proxy |-> ~Falsy(data.proxy), is_vpn |-> FALSE,
       is_tor |-> FALSE, threat_level |-> IF Falsy(data.proxy) THEN "low" ELSE "medium"]
    ELSE InitialNormalized
  ELSE IF p = "ipinfo" THEN
    LET loc == IF data.loc # <<>> THEN data.loc ELSE <<NULL, NULL>>
    IN [country |-> data.country, region |-> data.region, city |-> data.city,
        latitude |-> ParseFloatOrNull(loc[1]), longitude |-> ParseFloatOrNull(loc[2]),
        timezone |-> data.timezone, isp |-> data.org, is_proxy |-> FALSE,
        is_vpn |-> FALSE, is_tor |-> FALSE, threat_level |-> "low"]
  ELSE InitialNormalized

\* getCachedLocation, lines 597-610: the row of ip_geolocation_cache as returned
CachedRow(info, lastUpdated) ==
  [country |-> info.country, region |-> info.region, city |-> info.city,
   latitude |-> info.latitude, longitude |-> info.longitude, timezone |-> info.timezone,
   isp |-> info.isp, is_proxy |-> info.is_proxy, is_vpn |-> info.is_vpn,
   is_tor |-> info.is_tor, threat_level |-> info.threat_level,
   last_updated |-> lastUpdated]

\* isCacheValid with the age limit included
IsCacheValidInclusive(cachedData) ==
  IF cachedData.last_updated = NullTime THEN FALSE
  ELSE now - cachedData.last_updated <= CacheMaxAgeMs

\* isCacheValid
IsCacheValid(cachedData) ==
  IF cachedData.last_updated = NullTime THEN FALSE
  ELSE now - cachedData.last_updated < CacheMaxAgeMs

RECURSIVE SumCounts(_)
SumCounts(entries) ==
  IF entries = {} THEN 0
  ELSE LET e == CHOOSE x \in entries : TRUE
       IN e.count + SumCounts(entries \ {e})

\* checkRateLimit, lines 675-691: the entries kept and the requests counted
KeptCounters(counter) == {e \in counter : ~(e.timestamp < now - RateWindowMs)}

CurrentRequests(counter) ==
  SumCounts({e \in KeptCounters(counter) : e.timestamp >= now - RateWindowMs})

\* checkRateLimit admitting a request when the count equals the limit
CheckRateLimitOffByOne(counter, rateLimit) ==
  LET kept == KeptCounters(counter)
      currentMinute == (now \div 60000) * 60000
      old == {e \in kept : e.timestamp = currentMinute}
      before == IF old = {} THEN 0 ELSE (CHOOSE e \in old : TRUE).count
  IN IF CurrentRequests(counter) > rateLimit
       THEN [ok |-> FALSE, counter |-> kept]
       ELSE [ok |-> TRUE,
             counter |-> (kept \ old) \cup {[timestamp |-> currentMinute, count |-> before + 1]}]

\* checkRateLimit that admits a request without counting it
CheckRateLimitUncounted(counter, rateLimit) ==
  LET kept == KeptCounters(counter)
  IN IF CurrentRequests(counter) >= rateLimit
       THEN [ok |-> FALSE, counter |-> kept]
       ELSE [ok |-> TRUE, counter |-> kept]

\* checkRateLimit, for a provider of the table: its answer and the counter it leaves
CheckRateLimit(counter, rateLimit) ==
  LET kept == KeptCounters(counter)
      currentMinute == (now \div 60000) * 60000
      old == {e \in kept : e.timestamp = currentMinute}
      before == IF old = {} THEN 0 ELSE (CHOOSE e \in old : TRUE).count
  IN IF CurrentRequests(counter) >= rateLimit
       THEN [ok |-> FALSE, counter |-> kept]
       ELSE [ok |-> TRUE,
             counter |-> (kept \ old) \cup {[timestamp |-> currentMinute, count |-> before + 1]}]

NoResult == [none |-> TRUE]

IdleGeoCall ==
  [pc |-> "idle", ip |-> 0, cached |-> <<>>, result |-> NoResult, outcome |-> "none"]

\* getLocationInfo returns value v
Returned(d, v) == [d EXCEPT !.pc = "returned", !.result = v]

\* getLocationInfo, lines 474-482: the call; an address that is not valid or is
\* private gets the default at once, any other awaits getCachedLocation.
GetLocationInfo(g, ip) ==
  /\ geoCall[g].pc \in {"idle", "returned"}
  /\ geoCall' = [geoCall EXCEPT ![g] =
                   IF ~IsValidIP(SampleIPs[ip]) \/ IsPrivateIP(SampleIPs[ip])
                     THEN Returned([IdleGeoCall EXCEPT !.ip = ip], DefaultLocationInfo)
                     ELSE [IdleGeoCall EXCEPT !.pc = "getCachedLocation", !.ip = ip]]
  /\ UNCHANGED <<now, currentProvider, rateLimitCounter, geoCache, apiCalls, outsideGeo>>

\* getLocationInfo, lines 482-488, getCachedLocation and fetchFromAPI, lines
\* 501-531: the cache query resolves (with null when it throws); a valid entry is
\* returned, otherwise fetchFromAPI runs up to axios.get, and its throw (unknown
\* provider, rate limit) is caught by getLocationInfo, which returns the default.
GeoCachedLocation(g, queryOk) ==
  /\ geoCall[g].pc = "getCachedLocation"
  /\ LET d == [geoCall[g] EXCEPT !.cached = IF queryOk THEN geoCache[geoCall[g].ip] ELSE <<>>]
         limit == CheckRateLimit(rateLimitCounter, ProviderRateLimit(currentProvider))
     IN IF d.cached # <<>> /\ IsCacheValid(d.cached[1])
          THEN /\ geoCall' = [geoCall EXCEPT ![g] = Returned(d, d.cached[1])]
               /\ UNCHANGED <<rateLimitCounter, apiCalls>>
          ELSE IF currentProvider \notin Providers
            THEN /\ geoCall' = [geoCall EXCEPT ![g] = Returned(d, DefaultLocationInfo)]
                 /\ UNCHANGED <<rateLimitCounter, apiCalls>>
            ELSE /\ rateLimitCounter' = limit.counter
                 /\ IF limit.ok
                      THEN /\ geoCall' = [geoCall EXCEPT ![g] = [d EXCEPT !.pc = "axios"]]
                           /\ apiCalls' = Append(apiCalls, now)
                      ELSE /\ geoCall' = [geoCall EXCEPT ![g] = Returned(d, DefaultLocationInfo)]
                           /\ UNCHANGED apiCalls
  /\ UNCHANGED <<now, currentProvider, geoCache, outsideGeo>>

\* fetchFromAPI, lines 531-532, and getLocationInfo, lines 488-497: axios.get
\* settles. A rejection (timeout, non-2xx status, network error) or a throw of
\* normalizeResponse is caught by getLocationInfo, which returns the default;
\* otherwise the normalized data goes to saveCachedLocation.
GeoAxiosSettled(g, outcome) ==
  /\ geoCall[g].pc = "axios"
  /\ LET d == [geoCall[g] EXCEPT !.outcome = outcome]
     IN geoCall' = [geoCall EXCEPT ![g] =
          IF outcome = "rejected" \/ NormalizeThrows(currentProvider, outcome)
            THEN Returned(d, DefaultLocationInfo)
            ELSE [d EXCEPT !.pc = "saveCachedLocation",
                           !.result = NormalizeResponse(currentProvider,
                                                        Payload(currentProvider, outcome))]]
  /\ UNCHANGED <<now, currentProvider, rateLimitCounter, geoCache, apiCalls, outsideGeo>>

\* saveCachedLocation and getLocationInfo, lines 491-493: the upsert runs, with
\* last_updated = CURRENT_TIMESTAMP, or throws and is swallowed; the data is returned.
GeoSaveCachedLocation(g, queryOk) ==
  /\ geoCall[g].pc = "saveCachedLocation"
  /\ geoCache' = IF queryOk
                   THEN [geoCache EXCEPT ![geoCall[g].ip] = <<CachedRow(geoCall[g].result, now)>>]
                   ELSE geoCache
  /\ geoCall' = [geoCall EXCEPT ![g].pc = "returned"]
  /\ UNCHANGED <<now, currentProvider, rateLimitCounter, apiCalls, outsideGeo>>

\* Time passes by d; apiCalls keeps the upstream requests of the last minute.
Advance(d) ==
  /\ now' = now + d
  /\ apiCalls' = SelectSeq(apiCalls, LAMBDA t : t > now + d - RateWindowMs)
  /\ UNCHANGED <<currentProvider, rateLimitCounter, geoCache, geoCall, outsideGeo>>

\* Seconds pass.
TickSeconds ==
  /\ now < MaxGeoSmallTicks * GeoSmallStepMs
  /\ Advance(GeoSmallStepMs)

\* Half a day passes.
TickHalfDay ==
  /\ now < MaxGeoBigTicks * GeoBigStepMs
  /\ Advance(GeoBigStepMs)

(***************************************************************************)
(* PUT /config                                                             *)
(***************************************************************************)

\* keys of a request body, in the order of Object.entries
MaxBodyKeys == 2

\* The rows of security_settings: two settings an administrator may change and
\* one with is_system set
ConfigKeys == {"auto_block_high_risk", "max_concurrent_sessions", "system_setting"}

\* The keys request bodies name: the rows and a key that has none
BodyKeys == ConfigKeys \cup {"no_such_setting"}

\* setting_type of a row
SettingType(key) ==
  CASE key = "auto_block_high_risk" -> "boolean"
    [] key = "max_concurrent_sessions" -> "integer"
    [] OTHER -> "string"

\* is_system of a row
IsSystem(key) == key = "system_setting"

\* setting_value of the rows before the request
InitialConfig ==
  [key \in ConfigKeys |->
     CASE key = "auto_block_high_risk" -> "false"
       [] key = "max_concurrent_sessions" -> "2"
       [] OTHER -> "1"]

\* The values of a JSON body: typeof and the text toString gives
BodyValues ==
  {[typeof |-> "boolean", text |-> "true"], [typeof |-> "number", text |-> "3"],
   [typeof |-> "number", text |-> "3.5"], [typeof |-> "string", text |-> "yes"]}

\* req.body: up to MaxBodyKeys entries with distinct keys
Bodies ==
  UNION { {b \in [1..n -> [key : BodyKeys, value : BodyValues]] :
             \A i, j \in 1..n : i # j => b[i].key # b[j].key}
          : n \in 1..MaxBodyKeys }

\* Number.isInteger(value)
IsInteger(value) == value.typeof = "number" /\ value.text = "3"

\* PUT /config, lines 384-421: what the checks of one entry give, TRUE for an
\* entry that goes on to its UPDATE
EntryAccepted(entry) ==
  IF entry.key \notin ConfigKeys THEN FALSE
  ELSE IF IsSystem(entry.key) THEN FALSE
  ELSE IF SettingType(entry.key) = "boolean" THEN entry.value.typeof = "boolean"
  ELSE IF SettingType(entry.key) = "integer" THEN IsInteger(entry.value)
  ELSE TRUE

\* PUT /config, lines 383-429: the for loop over Object.entries. Each accepted
\* entry has its UPDATE issued by query(...) on the spot, the promise being kept
\* for Promise.all; the first entry that is not accepted answers 400 and ends
\* the handler.
RECURSIVE ValidateAndUpdate(_, _)
ValidateAndUpdate(entries, issued) ==
  IF entries = <<>> THEN [status |-> 0, issued |-> issued]
  ELSE IF ~EntryAccepted(Head(entries)) THEN [status |-> 400, issued |-> issued]
  ELSE ValidateAndUpdate(Tail(entries),
                         issued \cup {[key |-> Head(entries).key,
                                       stringValue |-> Head(entries).value.text]})

IdleConfigRequest == [pc |-> "idle", body |-> <<>>, pending |-> {}, failed |-> FALSE, status |-> 0]

outsideConfig == <<now, emailTransporter, alertQueue, isProcessing, alerts, settings,
                   administrators, call, drain, pushed, handed, sendLog, lastSendAt, request,
                   geoVars, loginVars, distanceCall>>

\* PUT /config, lines 367-375: the request arrives and the SELECT of the existing
\* settings is awaited
PutConfig(body) ==
  /\ configRequest.pc = "idle"
  /\ configRequest' = [IdleConfigRequest EXCEPT !.pc = "select", !.body = body]
  /\ UNCHANGED <<configValues, outsideConfig>>

\* PUT /config, lines 375-432: the SELECT resolves and the loop runs; the
\* request is answered 400, or awaits Promise.all; a failed SELECT is answered 500.
PutConfigSelected(queryOk) ==
  /\ configRequest.pc = "select"
  /\ LET r == ValidateAndUpdate(configRequest.body, {})
     IN configRequest' =
          IF ~queryOk THEN [configRequest EXCEPT !.pc = "done", !.status = 500]
          ELSE IF r.status = 400
            THEN [configRequest EXCEPT !.pc = "done", !.status = 400, !.pending = r.issued]
            ELSE [configRequest EXCEPT !.pc = "promiseAll", !.pending = r.issued]
  /\ UNCHANGED <<configValues, outsideConfig>>

\* An UPDATE the request issued is executed, or fails
ConfigUpdateSettled(u, ok) ==
  /\ u \in configRequest.pending
  /\ configValues' = IF ok THEN [configValues EXCEPT ![u.key] = u.stringValue] ELSE configValues
  /\ configRequest' = [configRequest EXCEPT !.pending = @ \ {u},
                                            !.failed = @ \/ ~ok]
  /\ UNCHANGED outsideConfig

\* PUT /config, lines 432-445: Promise.all settles, fulfilled when every UPDATE
\* was executed and rejected as soon as one failed
PutConfigRespond ==
  /\ configRequest.pc = "promiseAll"
  /\ configRequest.failed \/ configRequest.pending = {}
  /\ configRequest' = [configRequest EXCEPT !.pc = "done",
                                            !.status = IF configRequest.failed THEN 500 ELSE 200]
  /\ UNCHANGED <<configValues, outsideConfig>>

NextConfig ==
  \/ \E body \in Bodies : PutConfig(body)
  \/ \E queryOk \in BOOLEAN : PutConfigSelected(queryOk)
  \/ \E u \in configRequest.pending, ok \in BOOLEAN : ConfigUpdateSettled(u, ok)
  \/ PutConfigRespond

(***************************************************************************)
(* LoginAnomalyDetector: the rule registry                                 *)
(***************************************************************************)

\* The rule names the checks look up: "geographic" stands for the key
\* '异常地理位置', "suspicious_ip" for '可疑IP地址', "login_frequency" for
\* '频繁登录尝试', "new_device" for '新设备登录', "time_anomaly" for '异常时间登录'.
RuleNames == {"geographic", "suspicious_ip", "login_frequency", "new_device", "time_anomaly"}

\* The rows of login_risk_rules in the order in which the SELECT returns them.
RuleOrder == <<"geographic", "suspicious_ip", "login_frequency", "new_device", "time_anomaly">>

\* rule.risk_score of the stored rows
RuleScore(name) ==
  CASE name = "geographic" -> 40
    [] name = "suspicious_ip" -> 50
    [] name = "login_frequency" -> 30
    [] name = "new_device" -> 25
    [] name = "time_anomaly" -> 29

\* JSON.parse(rule.conditions) of the stored rows
RuleConditions(name) ==
  CASE name = "geographic" -> [max_distance_km |-> 500, time_window_hours |-> 6]
    [] name = "login_frequency" -> [time_window_minutes |-> 30, max_attempts |-> MaxAttempts]
    [] name = "time_anomaly" -> [normal_hours |-> 9..18]
    [] OTHER -> [none |-> TRUE]

\* A row of login_risk_rules: conditions is "json" for text that JSON.parse
\* accepts and "malformed" for text on which it throws.
RuleRow(name, enabled, conditions) ==
  [rule_name |-> name, is_enabled |-> enabled, risk_score |-> RuleScore(name),
   conditions |-> conditions]

\* SELECT * FROM login_risk_rules WHERE is_enabled = TRUE
SelectEnabledRules(store) ==
  LET keep(name) == store[name].is_enabled
      F[i \in 0..Len(RuleOrder)] ==
        IF i = 0 THEN <<>>
        ELSE IF keep(RuleOrder[i]) THEN Append(F[i - 1], store[RuleOrder[i]]) ELSE F[i - 1]
  IN F[Len(RuleOrder)]

\* Map.prototype.set
MapSet(map, key, value) ==
  [k \in DOMAIN map \cup {key} |-> IF k = key THEN value ELSE map[k]]

\* the value loadRiskRules stores for a row, lines 21-26
LoadedRule(row) ==
  [riskScore |-> row.risk_score, conditions |-> RuleConditions(row.rule_name)]

\* The for loop of loadRiskRules, lines 20-27: each row is set in turn; a row on
\* whose conditions JSON.parse throws ends the loop with the rows before it set.
RECURSIVE SetRules(_, _)
SetRules(map, rows) ==
  IF rows = <<>> THEN [map |-> map, threw |-> FALSE]
  ELSE IF Head(rows).conditions = "malformed" THEN [map |-> map, threw |-> TRUE]
  ELSE SetRules(MapSet(map, Head(rows).rule_name, LoadedRule(Head(rows))), Tail(rows))

\* this.riskRules.get(name): <<rule>>, or <<>> for undefined
GetRule(name) == IF name \in DOMAIN riskRules THEN <<riskRules[name]>> ELSE <<>>

\* new Map()
EmptyMap == [k \in {} |-> 0]

\* What the login path leaves alone when only the registry is concerned
outsideRules == <<now, emailTransporter, alertQueue, isProcessing, alerts, settings,
                  administrators, call, drain, pushed, handed, sendLog, lastSendAt, request, asideVars,
                  geoVars, loginLogs, trustedDevices, loginSettings, userSessions, ended,
                  login>>

\* loadRiskRules is called, line 14: the SELECT is issued.
LoadRiskRulesCall ==
  /\ loadCall.pc = "idle"
  /\ loadCall' = [pc |-> "query", outcome |-> "none"]
  /\ UNCHANGED <<riskRules, ruleStore, outsideRules>>

\* loadRiskRules, lines 16-32: the SELECT resolves and the loop sets the rules;
\* a failed query or a throwing JSON.parse is caught and logged.
LoadRiskRulesSettled(queryOk) ==
  /\ loadCall.pc = "query"
  /\ IF queryOk
       THEN LET r == SetRules(riskRules, SelectEnabledRules(ruleStore))
            IN /\ riskRules' = r.map
               /\ loadCall' = [pc |-> "idle", outcome |-> IF r.threw THEN "threw" ELSE "loaded"]
       ELSE /\ riskRules' = riskRules
            /\ loadCall' = [pc |-> "idle", outcome |-> "rejected"]
  /\ UNCHANGED <<ruleStore, outsideRules>>

\* A row of login_risk_rules is edited in the rule store.
EditRule(name, enabled, conditions) ==
  /\ ruleStore[name] # RuleRow(name, enabled, conditions)
  /\ ruleStore' = [ruleStore EXCEPT ![name] = RuleRow(name, enabled, conditions)]
  /\ UNCHANGED <<riskRules, loadCall, outsideRules>>

(***************************************************************************)
(* LoginAnomalyDetector: the checks                                        *)
(***************************************************************************)

\* POST /login requests: the request that is followed through the route; the
\* logins before it are the rows of the tables
Logins == {1}

LoginStepMs == 20 * 60 * 1000

HourMs == 60 * 60 * 1000

\* The one user whose logins are followed
UserId == 1

\* req.ip and the User-Agent header of the requests
ClientIPs == {1, 2}
UserAgents == {1, 2}

\* Values getLocationInfo returns for the client addresses
LocTokyo ==
  [country |-> "Japan", region |-> "Tokyo", city |-> "Tokyo",
   latitude |-> "35.68", longitude |-> "139.69", timezone |-> "Asia/Tokyo", isp |-> "NTT",
   is_proxy |-> FALSE, is_vpn |-> FALSE, is_tor |-> FALSE, threat_level |-> "low"]

LocLondonProxy ==
  [country |-> "United Kingdom", region |-> "England", city |-> "London",
   latitude |-> "51.51", longitude |-> "-0.13", timezone |-> "Europe/London", isp |-> "M247",
   is_proxy |-> TRUE, is_vpn |-> FALSE, is_tor |-> FALSE, threat_level |-> "medium"]

\* getLocationInfo(ip_address): the located value, or the default
LocationsOf(ip) == {DefaultLocationInfo, IF ip = 1 THEN LocTokyo ELSE LocLondonProxy}

\* The number a coordinate converts to in lat2 - lat1 and toRadians(lat1), in
\* hundredths of a degree
Hundredths(v) ==
  CASE v = "0" -> 0
    [] v = "60" -> 6000
    [] v = "-60" -> 0 - 6000
    [] v = "120" -> 12000
    [] v = "-120" -> 0 - 12000
    [] v = "180" -> 18000
    [] v = "35.68" -> 3568
    [] v = "139.69" -> 13969
    [] v = "51.51" -> 5151
    [] v = "-0.13" -> 0 - 13

\* Math.sin(toRadians(d) / 2) * Math.sin(toRadians(d) / 2) in ten-thousandths,
\* d in hundredths of a degree
SinSquaredHalf(d) ==
  CASE d = 0 -> 0
    [] d \in {6000, 0 - 6000} -> 2500
    [] d \in {12000, 0 - 12000} -> 7500
    [] d \in {18000, 0 - 18000} -> 10000
    [] d \in {24000, 0 - 24000} -> 7500
    [] d \in {30000, 0 - 30000} -> 2500
    [] d \in {1583, 0 - 1583} -> 190
    [] d \in {13982, 0 - 13982} -> 8820

\* Math.cos(toRadians(lat)) in ten-thousandths
CosOf(lat) ==
  CASE lat = 0 -> 10000
    [] lat \in {6000, 0 - 6000} -> 5000
    [] lat = 3568 -> 8123
    [] lat = 5151 -> 6224

\* R * 2 * Math.atan2(Math.sqrt(a), Math.sqrt(1 - a)) in whole kilometres, a in
\* ten-thousandths
EarthArcKm(a) ==
  CASE a = 0 -> 0
    [] a = 625 -> 3220
    [] a = 1875 -> 5706
    [] a = 2500 -> 6672
    [] a = 4648 -> 9559
    [] a = 7500 -> 13343
    [] a = 8125 -> 14309
    [] a = 9375 -> 16795
    [] a = 10000 -> 20015

\* calculateDistance, lines 746-759: <<>> for null, <<kilometres>> otherwise
CalculateDistance(lat1, lon1, lat2, lon2) ==
  IF Falsy(lat1) \/ Falsy(lon1) \/ Falsy(lat2) \/ Falsy(lon2) THEN <<>>
  ELSE LET dLat == Hundredths(lat2) - Hundredths(lat1)
           dLon == Hundredths(lon2) - Hundredths(lon1)
           a == SinSquaredHalf(dLat)
                + (((CosOf(Hundredths(lat1)) * CosOf(Hundredths(lat2))) \div 10000)
                   * SinSquaredHalf(dLon)) \div 10000
       IN <<EarthArcKm(a)>>

IdleDistanceCall == [pc |-> "idle", lat1 |-> NULL, lon1 |-> NULL, lat2 |-> NULL, lon2 |-> NULL,
                     result |-> <<>>]

\* calculateDistance is called with four coordinates
CalculateDistanceCall(lat1, lon1, lat2, lon2) ==
  /\ distanceCall.pc = "idle"
  /\ distanceCall' = [pc |-> "called", lat1 |-> lat1, lon1 |-> lon1, lat2 |-> lat2,
                      lon2 |-> lon2, result |-> <<>>]
  /\ UNCHANGED <<now, emailTransporter, alertQueue, isProcessing, alerts, settings,
                 administrators, call, drain, pushed, handed, sendLog, lastSendAt, request,
                 geoVars, loginVars, configValues, configRequest>>

\* calculateDistance returns
CalculateDistanceReturn ==
  /\ distanceCall.pc = "called"
  /\ distanceCall' = [distanceCall EXCEPT
                        !.pc = "returned",
                        !.result = CalculateDistance(distanceCall.lat1, distanceCall.lon1,
                                                     distanceCall.lat2, distanceCall.lon2)]
  /\ UNCHANGED <<now, emailTransporter, alertQueue, isProcessing, alerts, settings,
                 administrators, call, drain, pushed, handed, sendLog, lastSendAt, request,
                 geoVars, loginVars, configValues, configRequest>>

\* generateDeviceFingerprint: sha256 of device type, browser, os and address;
\* the user agents stand for distinct device infos
GenerateDeviceFingerprint(ua, ip) == <<"sha256", ua, ip>>

\* HOUR(t) of the server clock, whose time 0 is midnight UTC
HourOf(t) == (t \div HourMs) % 24

\* getCurrentHourInTimezone: <<>> for null, <<hour>> otherwise
GetCurrentHourInTimezone(timezone, t) ==
  IF Falsy(timezone) THEN <<>>
  ELSE IF timezone = "Asia/Tokyo" THEN <<(HourOf(t) + 9) % 24>>
  ELSE IF timezone = "Europe/London" THEN <<HourOf(t)>>
  ELSE <<>>

NotAnomalous == [isAnomalous |-> FALSE, riskScore |-> 0, type |-> "none"]

Anomalous(type, score) == [isAnomalous |-> TRUE, riskScore |-> score, type |-> type]

\* A row of user_login_logs as INSERTed by recordLoginLog; login_time and
\* is_active take the column defaults (the current time, TRUE).
NewLoginLogRow(userId, logData, t) ==
  [user_id |-> userId, session_token_hash |-> logData.session_token_hash,
   ip_address |-> logData.ip_address, latitude |-> logData.latitude,
   longitude |-> logData.longitude, login_time |-> t, risk_score |-> logData.risk_score,
   is_suspicious |-> logData.is_suspicious, is_active |-> TRUE]

LogIds == 1..Len(loginLogs)

\* t >= DATE_SUB(NOW(), INTERVAL hours HOUR)
NotBefore(t, hours) ==
  LET age == now - t
  IN \/ age \div HourMs < hours
     \/ age \div HourMs = hours /\ age % HourMs = 0

\* checkGeographicAnomaly, lines 139-149: the ids of the rows the SELECT returns
RecentLogins(userId) ==
  LET match == {i \in LogIds : /\ loginLogs[i].user_id = userId
                               /\ loginLogs[i].latitude # NULL
                               /\ loginLogs[i].longitude # NULL
                               /\ NotBefore(loginLogs[i].login_time, 24)}
      newer(j, i) == \/ loginLogs[j].login_time > loginLogs[i].login_time
                     \/ loginLogs[j].login_time = loginLogs[i].login_time /\ j > i
  IN {i \in match : Cardinality({j \in match : newer(j, i)}) < 5}

InTimeWindowInclusive(loginTime, hours) == now - loginTime <= hours * HourMs

\* checkGeographicAnomaly, lines 167-169: timeDiff < rule.conditions.time_window_hours
InTimeWindow(loginTime, hours) == now - loginTime < hours * HourMs

\* checkGeographicAnomaly, lines 132-190. The for loop takes the rows in the order
\* of the SELECT, login_time DESC, and returns at the first that is far and
\* recent; previousLogin is the id of that row, whose city and country make
\* details.previousLocation.
CheckGeographicAnomaly(userId, currentLocation, queryOk) ==
  IF Falsy(currentLocation.latitude) \/ Falsy(currentLocation.longitude) THEN NotAnomalous
  ELSE IF ~queryOk THEN NotAnomalous
  ELSE IF RecentLogins(userId) = {} THEN NotAnomalous
  ELSE IF GetRule("geographic") = <<>> THEN NotAnomalous
  ELSE LET rule == GetRule("geographic")[1]
           distance(i) == CalculateDistance(currentLocation.latitude, currentLocation.longitude,
                                            loginLogs[i].latitude, loginLogs[i].longitude)
           far(i) == /\ IF distance(i) = <<>> THEN FALSE
                        ELSE distance(i)[1] > rule.conditions.max_distance_km
                     /\ InTimeWindow(loginLogs[i].login_time, rule.conditions.time_window_hours)
           before(i, j) == \/ loginLogs[i].login_time > loginLogs[j].login_time
                           \/ loginLogs[i].login_time = loginLogs[j].login_time /\ i > j
           hits == {i \in RecentLogins(userId) : far(i)}
       IN IF hits # {}
            THEN [isAnomalous |-> TRUE, riskScore |-> rule.riskScore,
                  type |-> "geographic_anomaly",
                  previousLogin |-> CHOOSE i \in hits : \A j \in hits \ {i} : before(i, j)]
            ELSE NotAnomalous

Min(a, b) == IF a <= b THEN a ELSE b

\* checkIPReputation, lines 193-237
CheckIPReputation(locationInfo) ==
  IF GetRule("suspicious_ip") = <<>> THEN NotAnomalous
  ELSE LET rule == GetRule("suspicious_ip")[1]
           riskScore == (IF locationInfo.is_proxy THEN 20 ELSE 0)
                        + (IF locationInfo.is_vpn THEN 15 ELSE 0)
                        + (IF locationInfo.is_tor THEN 30 ELSE 0)
                        + (IF locationInfo.threat_level = "high" THEN 25
                           ELSE IF locationInfo.threat_level = "medium" THEN 15 ELSE 0)
           factors == locationInfo.is_proxy \/ locationInfo.is_vpn \/ locationInfo.is_tor
                      \/ locationInfo.threat_level \in {"high", "medium"}
       IN IF factors THEN Anomalous("ip_reputation", Min(riskScore, rule.riskScore))
          ELSE NotAnomalous

\* checkLoginFrequency, lines 249-257: attempt_count
AttemptCount(ipAddress, timeWindow) ==
  Cardinality({i \in LogIds : /\ loginLogs[i].ip_address = ipAddress
                              /\ loginLogs[i].login_time >= now - timeWindow * 60 * 1000})

AttemptsReachedStrict(attemptCount, maxAttempts) == attemptCount > maxAttempts

\* checkLoginFrequency, line 259
AttemptsReached(attemptCount, maxAttempts) == attemptCount >= maxAttempts

\* checkLoginFrequency, lines 240-278; got is what this.riskRules.get returned
\* when the check began
CheckLoginFrequency(got, ipAddress, queryOk) ==
  IF got = <<>> THEN NotAnomalous
  ELSE IF ~queryOk THEN NotAnomalous
  ELSE LET rule == got[1]
       IN IF AttemptsReached(AttemptCount(ipAddress, rule.conditions.time_window_minutes),
                             rule.conditions.max_attempts)
            THEN Anomalous("login_frequency", rule.riskScore)
            ELSE NotAnomalous

\* checkDeviceAnomaly, lines 290-293: the SELECT finds the device
KnownDevice(userId, fingerprint) == <<userId, fingerprint>> \in trustedDevices

\* checkDeviceAnomaly, lines 297-302: device_count
DeviceCount(userId) == Cardinality({d \in trustedDevices : d[1] = userId})

IsFirstDeviceNever(deviceCount) == FALSE

\* checkDeviceAnomaly, line 302
IsFirstDevice(deviceCount) == deviceCount = 0

\* getUserLoginPattern, lines 471-489: the hours of the rows returned
UserLoginPattern(userId, queryOk) ==
  IF ~queryOk THEN {}
  ELSE {h \in 0..23 :
          Cardinality({i \in LogIds : /\ loginLogs[i].user_id = userId
                                      /\ NotBefore(loginLogs[i].login_time, 30 * 24)
                                      /\ HourOf(loginLogs[i].login_time) = h}) >= 3}

CheckTimeAnomalyDefaultRule(got, userId, timezone, queryOk) ==
  LET rule == IF got = <<>> THEN LoadedRule(RuleRow("time_anomaly", TRUE, "json")) ELSE got[1]
      userLoginPattern == UserLoginPattern(userId, queryOk)
      currentHour == GetCurrentHourInTimezone(timezone, now)
  IN IF currentHour = <<>> THEN NotAnomalous
     ELSE IF userLoginPattern # {}
       THEN IF currentHour[1] \notin userLoginPattern
              THEN Anomalous("time_anomaly", rule.riskScore) ELSE NotAnomalous
     ELSE IF currentHour[1] \notin rule.conditions.normal_hours
       THEN Anomalous("time_anomaly", rule.riskScore)
     ELSE NotAnomalous

\* checkTimeAnomaly, lines 326-382; got is what this.riskRules.get returned when
\* the check began
CheckTimeAnomaly(got, userId, timezone, queryOk) ==
  IF got = <<>> THEN NotAnomalous
  ELSE LET rule == got[1]
           userLoginPattern == UserLoginPattern(userId, queryOk)
           currentHour == GetCurrentHourInTimezone(timezone, now)
       IN IF currentHour = <<>> THEN NotAnomalous
          ELSE IF userLoginPattern # {}
            THEN IF currentHour[1] \notin userLoginPattern
                   THEN Anomalous("time_anomaly", rule.riskScore) ELSE NotAnomalous
          ELSE IF currentHour[1] \notin rule.conditions.normal_hours
            THEN Anomalous("time_anomaly", rule.riskScore)
          ELSE NotAnomalous

\* parseInt(settings[0].setting_value), or 5 without a row
MaxSessions(rows) == IF rows = <<>> THEN 5 ELSE rows[1]

\* checkConcurrentSessions, lines 395-400: session_count
SessionCount(userId) ==
  Cardinality({i \in LogIds : loginLogs[i].user_id = userId /\ loginLogs[i].is_active})

\* checkConcurrentSessions, lines 385-420
CheckConcurrentSessions(userId, queryOk) ==
  IF ~queryOk THEN NotAnomalous
  ELSE IF SessionCount(userId) >= MaxSessions(loginSettings.max_concurrent_sessions)
    THEN Anomalous("concurrent_sessions", 25)
  ELSE NotAnomalous

(***************************************************************************)
(* POST /login and detectAnomalies                                         *)
(***************************************************************************)

IdleLogin ==
  [pc |-> "idle", ip |-> 0, ua |-> 0, loc |-> NoResult, rule |-> <<>>,
   score |-> 0, anomalies |-> <<>>, detect |-> "none", shouldBlock |-> FALSE,
   alertId |-> 0, caught |-> FALSE, threw |-> "none", status |-> 0]

\* session_token_hash of the request: bcrypt of its token, a fresh value each time
SessionTokenHash(l) == <<"bcrypt", l>>

AccumulateLast(d, a) ==
  IF a.isAnomalous
    THEN [d EXCEPT !.score = a.riskScore,
                   !.anomalies = Append(@, [type |-> a.type, riskScore |-> a.riskScore])]
    ELSE d

\* detectAnomalies, lines 61-65 and alike: the score is added and the anomaly pushed
Accumulate(d, a) ==
  IF a.isAnomalous
    THEN [d EXCEPT !.score = @ + a.riskScore,
                   !.anomalies = Append(@, [type |-> a.type, riskScore |-> a.riskScore])]
    ELSE d

\* detectAnomalies, lines 113 and 119
IsSuspicious(totalRiskScore) == totalRiskScore >= 50

\* The request is answered: what is kept of it is the answer, what
\* detectAnomalies did and the error the route caught
Answered(d, status) ==
  [IdleLogin EXCEPT !.pc = "done", !.status = status, !.detect = d.detect,
                    !.shouldBlock = d.shouldBlock, !.threw = d.threw]

AfterTryFailsOnError(d) ==
  IF d.threw # "none" THEN Answered(d, 500)
  ELSE IF d.shouldBlock THEN Answered(d, 403)
  ELSE [d EXCEPT !.pc = "saveUserSession", !.rule = <<>>, !.caught = FALSE]

\* POST /login, lines 208-214: after the try block the request is refused or goes
\* on to save the session
AfterTry(d) ==
  IF d.shouldBlock THEN Answered(d, 403)
  ELSE [d EXCEPT !.pc = "saveUserSession", !.rule = <<>>, !.caught = FALSE]

\* what no step of a login request touches
loginFrame == <<now, emailTransporter, settings, administrators, call, sendLog, lastSendAt,
                request, asideVars, geoVars, riskRules, ruleStore, loadCall, loginSettings, ended>>

queueVars == <<alertQueue, isProcessing, alerts, drain, pushed, handed>>

\* POST /login, lines 120-168, and detectAnomalies, line 49: the user is looked
\* up and the password compared; the request is answered 401, or the token is
\* made and detectAnomalies awaits getLocationInfo. Requests are numbered in the
\* order in which they arrive.
LoginStart(l, ip, ua, credentialsOk) ==
  /\ login[l].pc = "idle"
  /\ \A k \in Logins : k < l => login[k].pc # "idle"
  /\ login' = [login EXCEPT ![l] =
                 IF credentialsOk
                   THEN [@ EXCEPT !.pc = "getLocationInfo", !.ip = ip, !.ua = ua,
                                  !.detect = "running"]
                   ELSE Answered(@, 401)]
  /\ UNCHANGED <<loginFrame, queueVars, loginLogs, trustedDevices, userSessions>>

\* detectAnomalies, lines 49-60: getLocationInfo resolves and
\* checkGeographicAnomaly begins.
DetectLocation(l, loc) ==
  /\ login[l].pc = "getLocationInfo"
  /\ loc \in LocationsOf(login[l].ip)
  /\ login' = [login EXCEPT ![l] = [@ EXCEPT !.pc = "checkGeographicAnomaly", !.loc = loc]]
  /\ UNCHANGED <<loginFrame, queueVars, loginLogs, trustedDevices, userSessions>>

\* detectAnomalies, lines 60-76: the SELECT of checkGeographicAnomaly resolves,
\* checkIPReputation runs and checkLoginFrequency begins.
DetectGeographic(l, queryOk) ==
  /\ login[l].pc = "checkGeographicAnomaly"
  /\ LET d == login[l]
         issued == ~Falsy(d.loc.latitude) /\ ~Falsy(d.loc.longitude)
         geoAnomaly == CheckGeographicAnomaly(UserId, d.loc, queryOk)
         ipReputationAnomaly == CheckIPReputation(d.loc)
         d1 == Accumulate(Accumulate(d, geoAnomaly), ipReputationAnomaly)
     IN /\ queryOk \/ issued
        /\ login' = [login EXCEPT ![l] =
                       [d1 EXCEPT !.pc = "checkLoginFrequency",
                                  !.rule = GetRule("login_frequency"),
                                  !.caught = ~queryOk]]
  /\ UNCHANGED <<loginFrame, queueVars, loginLogs, trustedDevices, userSessions>>

\* detectAnomalies, lines 76-84: the COUNT of checkLoginFrequency resolves and
\* checkDeviceAnomaly begins.
DetectFrequency(l, queryOk) ==
  /\ login[l].pc = "checkLoginFrequency"
  /\ LET d == login[l]
         frequencyAnomaly == CheckLoginFrequency(d.rule, d.ip, queryOk)
     IN /\ queryOk \/ d.rule # <<>>
        /\ login' = [login EXCEPT ![l] =
                       [Accumulate(d, frequencyAnomaly) EXCEPT
                          !.pc = "checkDeviceAnomaly",
                          !.rule = GetRule("new_device"),
                          !.caught = ~queryOk]]
  /\ UNCHANGED <<loginFrame, queueVars, loginLogs, trustedDevices, userSessions>>

\* checkDeviceAnomaly, lines 283-295: without the rule the check is over; the
\* SELECT for the fingerprint resolves, and for an unknown device the COUNT is
\* issued. When the check is over checkTimeAnomaly begins.
DetectDeviceKnown(l, queryOk) ==
  /\ login[l].pc = "checkDeviceAnomaly"
  /\ LET d == login[l]
         over == \/ d.rule = <<>>
                 \/ ~queryOk
                 \/ KnownDevice(UserId, GenerateDeviceFingerprint(d.ua, d.ip))
     IN /\ queryOk \/ d.rule # <<>>
        /\ login' = [login EXCEPT ![l] =
                       IF over
                         THEN [d EXCEPT !.pc = "checkTimeAnomaly",
                                        !.rule = GetRule("time_anomaly"),
                                        !.caught = ~queryOk]
                         ELSE [d EXCEPT !.pc = "checkDeviceCount", !.caught = FALSE]]
  /\ UNCHANGED <<loginFrame, queueVars, loginLogs, trustedDevices, userSessions>>

\* checkDeviceAnomaly, lines 297-323: the COUNT resolves; detectAnomalies,
\* lines 84-92: checkTimeAnomaly begins.
DetectDeviceCount(l, queryOk) ==
  /\ login[l].pc = "checkDeviceCount"
  /\ LET d == login[l]
         deviceAnomaly == IF queryOk /\ ~IsFirstDevice(DeviceCount(UserId))
                            THEN Anomalous("new_device", d.rule[1].riskScore)
                            ELSE NotAnomalous
     IN login' = [login EXCEPT ![l] =
                       [Accumulate(d, deviceAnomaly) EXCEPT
                          !.pc = "checkTimeAnomaly",
                          !.rule = GetRule("time_anomaly"),
                          !.caught = ~queryOk]]
  /\ UNCHANGED <<loginFrame, queueVars, loginLogs, trustedDevices, userSessions>>

\* detectAnomalies, lines 92-100: the SELECT of getUserLoginPattern resolves (with
\* [] when it throws) and checkConcurrentSessions begins.
DetectTime(l, queryOk) ==
  /\ login[l].pc = "checkTimeAnomaly"
  /\ LET d == login[l]
         timeAnomaly == CheckTimeAnomaly(d.rule, UserId, d.loc.timezone, queryOk)
     IN /\ queryOk \/ d.rule # <<>>
        /\ login' = [login EXCEPT ![l] =
                       [Accumulate(d, timeAnomaly) EXCEPT
                          !.pc = "checkConcurrentSessions",
                          !.rule = <<>>,
                          !.caught = ~queryOk]]
  /\ UNCHANGED <<loginFrame, queueVars, loginLogs, trustedDevices, userSessions>>

\* detectAnomalies, lines 100-108: the two SELECTs of checkConcurrentSessions
\* resolve (the setting is not written while logins run, so they are one step)
\* and recordLoginLog issues its INSERT.
DetectConcurrent(l, queryOk) ==
  /\ login[l].pc = "checkConcurrentSessions"
  /\ LET d == login[l]
         concurrentAnomaly == CheckConcurrentSessions(UserId, queryOk)
     IN login' = [login EXCEPT ![l] =
                       [Accumulate(d, concurrentAnomaly) EXCEPT
                          !.pc = "recordLoginLog",
                          !.caught = ~queryOk]]
  /\ UNCHANGED <<loginFrame, queueVars, loginLogs, trustedDevices, userSessions>>

\* detectAnomalies, lines 108-128, and recordLoginLog: the INSERT resolves and
\* the assessment is returned to the route, which reads the auto-block setting;
\* a failed INSERT is rethrown by recordLoginLog and by detectAnomalies, and the
\* route's catch logs it.
DetectRecord(l, insertOk) ==
  /\ login[l].pc = "recordLoginLog"
  /\ LET d == login[l]
         logData == [session_token_hash |-> SessionTokenHash(l), ip_address |-> d.ip,
                     latitude |-> d.loc.latitude, longitude |-> d.loc.longitude,
                     risk_score |-> d.score, is_suspicious |-> IsSuspicious(d.score)]
     IN IF insertOk
          THEN /\ loginLogs' = Append(loginLogs, NewLoginLogRow(UserId, logData, now))
               /\ login' = [login EXCEPT ![l] = [d EXCEPT !.pc = "autoBlock", !.caught = FALSE,
                                                          !.detect = "returned"]]
          ELSE /\ loginLogs' = loginLogs
               /\ login' = [login EXCEPT ![l] =
                              AfterTry([d EXCEPT !.detect = "threw", !.caught = FALSE,
                                                 !.threw = "recordLoginLog"])]
  /\ UNCHANGED <<loginFrame, queueVars, trustedDevices, userSessions>>

\* POST /login, line 183: the score from which an enabled auto-block refuses
AutoBlockScore == 80

\* POST /login, line 194: below this score the device becomes trusted
TrustedBelowScore == 30

\* POST /login, lines 188-201: what the try block does next
AfterAutoBlock(d) ==
  IF IsSuspicious(d.score) THEN [d EXCEPT !.pc = "createLoginAnomalyAlert"]
  ELSE IF d.score < TrustedBelowScore THEN [d EXCEPT !.pc = "addTrustedDevice"]
  ELSE AfterTry(d)

\* POST /login, lines 178-201: the auto-block setting is read; a suspicious
\* login raises an alert, a low score makes the device trusted.
LoginAutoBlock(l, readOk) ==
  /\ login[l].pc = "autoBlock"
  /\ LET d == login[l]
         rows == loginSettings.auto_block_high_risk
         autoBlock == rows # <<>> /\ rows[1] = "true"
         d1 == [d EXCEPT !.shouldBlock = autoBlock /\ d.score >= AutoBlockScore]
     IN login' = [login EXCEPT ![l] =
                    IF readOk THEN AfterAutoBlock(d1)
                    ELSE AfterTry([d EXCEPT !.threw = "autoBlock"])]
  /\ UNCHANGED <<loginFrame, queueVars, loginLogs, trustedDevices, userSessions>>

LoginSeverityStrict(totalRiskScore) ==
  IF totalRiskScore > 80 THEN "critical"
  ELSE IF totalRiskScore > 60 THEN "high"
  ELSE IF totalRiskScore > 40 THEN "medium"
  ELSE "low"

\* createLoginAnomalyAlert, lines 400-403
LoginSeverity(totalRiskScore) ==
  IF totalRiskScore >= 80 THEN "critical"
  ELSE IF totalRiskScore >= 60 THEN "high"
  ELSE IF totalRiskScore >= 40 THEN "medium"
  ELSE "low"

\* createLoginAnomalyAlert and createSecurityAlert, lines 35-61: the INSERT into
\* security_alerts resolves; a failed INSERT is rethrown to the route's catch.
LoginCreateAlert(l, insertOk) ==
  /\ login[l].pc = "createLoginAnomalyAlert"
  /\ LET d == login[l]
     IN IF insertOk
          THEN /\ alerts' = Append(alerts, NewAlertRow(LoginSeverity(d.score)))
               /\ login' = [login EXCEPT ![l] = [d EXCEPT !.pc = "shouldSendNotification",
                                                          !.alertId = Len(alerts) + 1]]
          ELSE /\ alerts' = alerts
               /\ login' = [login EXCEPT ![l] =
                              AfterTry([d EXCEPT !.threw = "createSecurityAlert"])]
  /\ UNCHANGED <<loginFrame, alertQueue, isProcessing, drain, pushed, handed,
                 loginLogs, trustedDevices, userSessions>>

\* createSecurityAlert, lines 76-79: the route's await of createLoginAnomalyAlert
\* resolves when createSecurityAlert returns the alert id, whatever the state of
\* the notification queue
LoginAfterAlert(l) == TRUE

\* createSecurityAlert, lines 63-78, for the alert of a login: shouldSendNotification
\* resolves, the alert is pushed, processNotificationQueue runs up to its first
\* await and the alert id is returned; POST /login, lines 193-201, goes on.
LoginAlertNotify(l, readOk) ==
  /\ login[l].pc = "shouldSendNotification"
  /\ LoginAfterAlert(l)
  /\ LET d == login[l]
         id == d.alertId
         shouldNotify == ShouldSendNotification(readOk, settings.alert_administrators,
                                                LoginSeverity(d.score))
         queue1 == IF shouldNotify THEN Append(alertQueue, id) ELSE alertQueue
         starts == shouldNotify /\ DrainGuard(isProcessing, queue1)
         sh == Shift(queue1)
     IN /\ pushed' = IF shouldNotify THEN Append(pushed, id) ELSE pushed
        /\ IF starts
             THEN /\ isProcessing' = TRUE
                  /\ alertQueue' = sh.rest
                  /\ handed' = Append(handed, sh.item)
                  /\ drain' = [drain EXCEPT ![l] = [IdleDrain EXCEPT !.pc = "getAdministrators",
                                                                     !.alert = sh.item]]
             ELSE /\ alertQueue' = queue1
                  /\ UNCHANGED <<isProcessing, handed, drain>>
        /\ login' = [login EXCEPT ![l] =
                       IF d.score < TrustedBelowScore THEN [d EXCEPT !.pc = "addTrustedDevice"]
                       ELSE AfterTry(d)]
  /\ UNCHANGED <<loginFrame, alerts, loginLogs, trustedDevices, userSessions>>

\* addTrustedDevice, lines 523-542: INSERT ... ON DUPLICATE KEY UPDATE
AddTrustedDevice(devices, userId, fingerprint) == devices \cup {<<userId, fingerprint>>}

\* addTrustedDevice, lines 517-546, and POST /login, lines 203-217: the upsert
\* resolves (a failure is logged and swallowed) and the route saves the session.
LoginAddTrustedDevice(l, insertOk) ==
  /\ login[l].pc = "addTrustedDevice"
  /\ LET d == login[l]
     IN /\ trustedDevices' =
             IF insertOk
               THEN AddTrustedDevice(trustedDevices, UserId, GenerateDeviceFingerprint(d.ua, d.ip))
               ELSE trustedDevices
        /\ login' = [login EXCEPT ![l] =
                       AfterTry(d)]
  /\ UNCHANGED <<loginFrame, queueVars, loginLogs, userSessions>>

\* saveUserSession and POST /login, lines 217-223: the INSERT into user_sessions
\* resolves (a failure is logged and swallowed) and last_login is updated.
LoginSaveSession(l, insertOk) ==
  /\ login[l].pc = "saveUserSession"
  /\ userSessions' = IF insertOk THEN Append(userSessions, l) ELSE userSessions
  /\ login' = [login EXCEPT ![l] = [@ EXCEPT !.pc = "updateLastLogin"]]
  /\ UNCHANGED <<loginFrame, queueVars, loginLogs, trustedDevices>>

\* POST /login, lines 220-254: the UPDATE of last_login resolves and the request
\* is answered 200, or 500 when the UPDATE throws.
LoginRespond(l, updateOk) ==
  /\ login[l].pc = "updateLastLogin"
  /\ login' = [login EXCEPT ![l] =
                 IF updateOk THEN Answered(@, 200)
                 ELSE Answered([@ EXCEPT !.threw = "updateLastLogin"], 500)]
  /\ UNCHANGED <<loginFrame, queueVars, loginLogs, trustedDevices, userSessions>>

\* session_token_hash of the rows earlier logins left
StoredSessionTokenHash(i) == <<"bcrypt", 0 - i>>

\* The hashes of the tokens clients hold: those of the earlier logins, and that
\* of a request answered 200
IssuedTokens ==
  {loginLogs[i].session_token_hash : i \in {k \in LogIds : loginLogs[k].session_token_hash[2] < 0}}
    \cup {SessionTokenHash(l) : l \in {k \in Logins : login[k].status = 200}}

\* POST /logout, lines 348-364, with a token whose hash is given: the route logs
\* and answers 200.
Logout(hash) ==
  /\ hash \in IssuedTokens
  /\ hash \notin ended
  /\ ended' = ended \cup {hash}
  /\ UNCHANGED <<now, emailTransporter, settings, administrators, call, sendLog, lastSendAt,
                 request, asideVars, geoVars, riskRules, ruleStore, loadCall, loginSettings,
                 queueVars, loginLogs, trustedDevices, userSessions, login>>

\* POST /terminate-session, line 289: UPDATE ... WHERE session_token_hash = ?
TerminateByHash(logs, hash) ==
  [i \in 1..Len(logs) |->
     IF logs[i].session_token_hash = hash THEN [logs[i] EXCEPT !.is_active = FALSE]
     ELSE logs[i]]

\* POST /terminate-session, line 293: UPDATE ... WHERE user_id = ? AND is_active
TerminateByUser(logs, userId) ==
  [i \in 1..Len(logs) |->
     IF logs[i].user_id = userId /\ logs[i].is_active
       THEN [logs[i] EXCEPT !.is_active = FALSE] ELSE logs[i]]

\* POST /terminate-session, lines 280-308: an administrator ends the session
\* with the given hash, or all sessions of the user when no hash is given
\* (hash = <<>>).
TerminateSession(hash) ==
  /\ IF hash = <<>> THEN TRUE
     ELSE \E i \in LogIds : loginLogs[i].session_token_hash = hash[1]
  /\ loginLogs' = IF hash = <<>> THEN TerminateByUser(loginLogs, UserId)
                  ELSE TerminateByHash(loginLogs, hash[1])
  /\ loginLogs' # loginLogs
  /\ ended' = ended \cup (IF hash = <<>>
                             THEN {loginLogs[i].session_token_hash :
                                     i \in {k \in LogIds : loginLogs[k].user_id = UserId}}
                             ELSE {hash[1]})
  /\ UNCHANGED <<now, emailTransporter, settings, administrators, call, sendLog, lastSendAt,
                 request, asideVars, geoVars, riskRules, ruleStore, loadCall, loginSettings,
                 queueVars, trustedDevices, userSessions, login>>

\* DELETE /trusted-devices/:deviceFingerprint, lines 479-493
RevokeTrustedDevice(fingerprint) ==
  /\ <<UserId, fingerprint>> \in trustedDevices
  /\ trustedDevices' = trustedDevices \ {<<UserId, fingerprint>>}
  /\ UNCHANGED <<loginFrame, queueVars, loginLogs, userSessions, login>>

\* Time passes before the request arrives: a request lasts milliseconds, the
\* clock advances by minutes.
TickLogin ==
  /\ \A l \in Logins : login[l].pc = "idle"
  /\ now < MaxLoginTicks * LoginStepMs
  /\ now' = now + LoginStepMs
  /\ UNCHANGED <<emailTransporter, settings, administrators, call, sendLog, lastSendAt,
                 request, asideVars, geoVars, riskRules, ruleStore, loadCall, loginSettings,
                 queueVars, loginLogs, trustedDevices, userSessions, ended, login>>

(***************************************************************************)
(* Initial state and specifications                                        *)
(***************************************************************************)

AdminLists == {[i \in 1..n |-> i] : n \in 0..MaxAdmins}

\* login_risk_rules as stored: every rule enabled, or one of them disabled
RuleStores ==
  {[name \in RuleNames |-> RuleRow(name, name # off, "json")] : off \in RuleNames \cup {"none"}}

\* The row an earlier login from address 1, located, left in user_login_logs
StoredLoginLog(i) ==
  NewLoginLogRow(UserId,
                 [session_token_hash |-> StoredSessionTokenHash(i), ip_address |-> 1,
                  latitude |-> LocTokyo.latitude, longitude |-> LocTokyo.longitude,
                  risk_score |-> 0, is_suspicious |-> FALSE], 0)

StoredLoginLogs == {[i \in 1..k |-> StoredLoginLog(i)] : k \in 0..StoredLogins}

\* security_settings: the rows of max_concurrent_sessions, auto_block_high_risk
\* and high_risk_threshold, <<>> for a missing row
LoginSettings ==
  {[max_concurrent_sessions |-> m, auto_block_high_risk |-> a, high_risk_threshold |-> h] :
     m \in {<<>>, <<2>>}, a \in {<<>>, <<"true">>}, h \in {<<>>, <<70>>}}

Init ==
  /\ now = 0
  /\ emailTransporter \in {InitializeEmailTransporter(b) : b \in BOOLEAN}
  /\ alertQueue = <<>>
  /\ isProcessing = FALSE
  /\ alerts = [i \in 1..StoredAlerts |-> NewAlertRow("high")]
  /\ settings \in {[alert_administrators |-> v] : v \in {"true", "false", NULL}}
  /\ administrators \in AdminLists
  /\ call = [c \in Calls |-> IdleCall]
  /\ drain = [c \in Calls |-> IdleDrain]
  /\ pushed = <<>>
  /\ handed = <<>>
  /\ sendLog = <<>>
  /\ lastSendAt = NullTime
  /\ request = [r \in Requests |-> IdleRequest]
  /\ currentProvider \in ProviderSettings
  /\ rateLimitCounter = {}
  /\ geoCache = [ip \in IPs |-> <<>>]
  /\ geoCall = [g \in GeoCalls |-> IdleGeoCall]
  /\ apiCalls = <<>>
  /\ riskRules = EmptyMap
  /\ ruleStore \in RuleStores
  /\ loadCall = [pc |-> "query", outcome |-> "none"]
  /\ loginLogs \in StoredLoginLogs
  /\ trustedDevices \in {{}, {<<UserId, GenerateDeviceFingerprint(1, 1)>>}}
  /\ loginSettings \in LoginSettings
  /\ userSessions = <<>>
  /\ ended = {}
  /\ login = [l \in Logins |-> IdleLogin]
  /\ distanceCall = IdleDistanceCall
  /\ configValues = InitialConfig
  /\ configRequest = IdleConfigRequest

\* The resolve route and the geolocation service read nothing of the
\* notification service: their specifications start from one of its states.
NotifierAtRest ==
  /\ emailTransporter = NULL
  /\ settings.alert_administrators = "true"
  /\ administrators = <<>>

\* The notification service and the resolve route read nothing of the
\* geolocation service.
ResolverAtRest == currentProvider = "ipapi"

\* The notification service, the resolve route and the geolocation service read
\* nothing of the login path.
DetectorAtRest ==
  /\ \A name \in RuleNames : ruleStore[name].is_enabled
  /\ loginLogs = <<>>
  /\ trustedDevices = {}
  /\ loginSettings = [max_concurrent_sessions |-> <<>>, auto_block_high_risk |-> <<>>,
                      high_risk_threshold |-> <<>>]

InitNotify == Init /\ ResolverAtRest /\ DetectorAtRest

InitResolve == Init /\ NotifierAtRest /\ ResolverAtRest /\ DetectorAtRest

InitGeo == Init /\ NotifierAtRest /\ DetectorAtRest

\* The rule registry on its own
InitRules == Init /\ NotifierAtRest /\ ResolverAtRest /\ DetectorAtRest

NextRules ==
  \/ LoadRiskRulesCall
  \/ \E queryOk \in BOOLEAN : LoadRiskRulesSettled(queryOk)
  \/ \E name \in RuleNames, enabled \in BOOLEAN, conditions \in {"json", "malformed"} :
       EditRule(name, enabled, conditions)

SpecRules == InitRules /\ [][NextRules]_vars

\* Logins of one user: the rules are loaded while requests arrive.
InitLogin ==
  /\ Init /\ NotifierAtRest /\ ResolverAtRest
  /\ \A name \in RuleNames : ruleStore[name].is_enabled
  /\ loginSettings.max_concurrent_sessions = <<2>>
  /\ loginSettings.auto_block_high_risk = <<"true">>

LoginSteps(l) ==
  \/ \E ip \in ClientIPs, ua \in UserAgents, credentialsOk \in BOOLEAN :
       LoginStart(l, ip, ua, credentialsOk)
  \/ \E loc \in LocationsOf(login[l].ip) : DetectLocation(l, loc)
  \/ \E ok \in BOOLEAN :
       \/ DetectGeographic(l, ok)
       \/ DetectFrequency(l, ok)
       \/ DetectDeviceKnown(l, ok)
       \/ DetectDeviceCount(l, ok)
       \/ DetectTime(l, ok)
       \/ DetectConcurrent(l, ok)
       \/ DetectRecord(l, ok)
       \/ LoginAutoBlock(l, ok)
       \/ LoginCreateAlert(l, ok)
       \/ LoginAlertNotify(l, ok)
       \/ LoginAddTrustedDevice(l, ok)
       \/ LoginSaveSession(l, ok)
       \/ LoginRespond(l, ok)

\* The sessions that logout and terminate-session requests name: the oldest of
\* the earlier logins and those of the requests
SessionTokenHashes ==
  {StoredSessionTokenHash(1)} \cup {SessionTokenHash(l) : l \in Logins}

NextLogin ==
  \/ \E l \in Logins : LoginSteps(l)
  \/ \E hash \in SessionTokenHashes : Logout(hash)
  \/ \E hash \in {<<>>} \cup {<<h>> : h \in SessionTokenHashes} : TerminateSession(hash)
  \/ \E ua \in UserAgents, ip \in ClientIPs : RevokeTrustedDevice(GenerateDeviceFingerprint(ua, ip))
  \/ \E queryOk \in BOOLEAN : LoadRiskRulesSettled(queryOk)
  \/ TickLogin

SpecLogin == InitLogin /\ [][NextLogin]_vars

NextNotify ==
  \/ \E c \in Calls, sev \in NotifySeverities, insertOk \in BOOLEAN :
       CreateSecurityAlertInsert(c, sev, insertOk)
  \/ \E c \in Calls, readOk \in BOOLEAN : CreateSecurityAlertNotify(c, readOk)
  \/ \E c \in Calls, queryOk \in BOOLEAN : DrainGetAdministrators(c, queryOk)
  \/ \E c \in Calls : DrainGetUserInfo(c)
  \/ \E c \in Calls, contentOk \in BOOLEAN : DrainGetEmailTemplate(c, contentOk)
  \/ \E c \in Calls, ok \in BOOLEAN : DrainSendMailSettled(c, ok)
  \/ \E c \in Calls : DrainWake(c)
  \/ TickNotify

SpecNotify == InitNotify /\ [][NextNotify]_vars

NextResolve ==
  \/ \E r \in Requests, alertId \in 1..(StoredAlerts + 1), by \in ResolverIds,
        queryOk \in BOOLEAN : ResolveSelect(r, alertId, by, queryOk)
  \/ \E r \in Requests, queryOk \in BOOLEAN : ResolveUpdate(r, queryOk)
  \/ TickResolve

SpecResolve == InitResolve /\ [][NextResolve]_vars

\* The geolocation service called with every sample address, the clock standing.
NextGeoAddresses ==
  \/ \E g \in GeoCalls, ip \in IPs : GetLocationInfo(g, ip)
  \/ \E g \in GeoCalls, queryOk \in BOOLEAN : GeoCachedLocation(g, queryOk)
  \/ \E g \in GeoCalls, outcome \in PayloadKinds \cup {"rejected"} : GeoAxiosSettled(g, outcome)
  \/ \E g \in GeoCalls, queryOk \in BOOLEAN : GeoSaveCachedLocation(g, queryOk)

SpecGeoAddresses == InitGeo /\ [][NextGeoAddresses]_vars

\* The geolocation service over a few minutes: the rate limiter.
NextGeoRate ==
  \/ \E g \in GeoCalls, ip \in TimedIPs : GetLocationInfo(g, ip)
  \/ \E g \in GeoCalls, queryOk \in BOOLEAN : GeoCachedLocation(g, queryOk)
  \/ \E g \in GeoCalls, outcome \in PayloadKinds \cup {"rejected"} : GeoAxiosSettled(g, outcome)
  \/ \E g \in GeoCalls, queryOk \in BOOLEAN : GeoSaveCachedLocation(g, queryOk)
  \/ TickSeconds

SpecGeoRate == InitGeo /\ [][NextGeoRate]_vars

\* The geolocation service over a few days: the cache.
NextGeoCache ==
  \/ \E g \in GeoCalls, ip \in TimedIPs : GetLocationInfo(g, ip)
  \/ \E g \in GeoCalls, queryOk \in BOOLEAN : GeoCachedLocation(g, queryOk)
  \/ \E g \in GeoCalls, outcome \in PayloadKinds \cup {"rejected"} : GeoAxiosSettled(g, outcome)
  \/ \E g \in GeoCalls, queryOk \in BOOLEAN : GeoSaveCachedLocation(g, queryOk)
  \/ TickHalfDay

SpecGeoCache == InitGeo /\ [][NextGeoCache]_vars

(***************************************************************************)
(* Properties                                                              *)
(***************************************************************************)

\* the drain loops that have started and not left
ActiveDrains == {c \in Calls : drain[c].pc # "idle"}

\* the administrators the sendMail calls for an alert went to, in call order
RecipientsOf(log, alert) ==
  LET of == SelectSeq(log, LAMBDA e : e.alert = alert)
  IN [i \in 1..Len(of) |-> of[i].to]

\* C1: delivery is a single-worker FIFO queue. Whatever the interleaving of
\* createSecurityAlert calls, at most one processNotificationQueue loop is
\* active, and the alerts handed to sendNotifications followed by the alerts
\* still queued are the alerts pushed, in the order of the pushes.
C1_SingleWorkerFifo ==
  /\ Cardinality(ActiveDrains) <= 1
  /\ pushed = handed \o alertQueue

\* C1 witness: three alerts were pushed while one loop was draining; two of them
\* have been handed over and the third waits.
C1_Witness ==
  /\ Len(pushed) = 3
  /\ Len(handed) = 2
  /\ Len(alertQueue) = 1
  /\ Cardinality(ActiveDrains) = 1

\* C2: for a dequeued alert with N active administrators (the N rows that
\* getAdministrators returned for it) the delivery issues exactly N sendMail
\* calls, and every two consecutive sendMail calls of the dispatcher are at
\* least one second apart.
C2_NSendsOneSecondApart ==
  [][ /\ \A c \in Calls :
           (drain[c].pc \notin {"idle", "sleep"} /\ drain'[c].pc = "sleep")
             => Len(RecipientsOf(sendLog', drain[c].alert)) = Len(drain[c].admins)
      /\ (Len(sendLog') > Len(sendLog) /\ lastSendAt # NullTime)
           => now >= lastSendAt + QueueSpacingMs ]_vars

\* C3: a rejected sendMail does not abort the batch. The sendMail calls made
\* for an alert go to the administrators in list order, one call each (no
\* retry), up to the administrator being served while the batch runs and to all
\* of them once it is over, whichever calls were rejected; and after a
\* rejection the loop is still there for the alerts that wait.
C3_FailedSendDoesNotAbortBatch ==
  /\ \A i \in 1..Len(sendLog) :
       LET a == sendLog[i].alert
           serving == {c \in Calls : drain[c].pc = "sendMail" /\ drain[c].alert = a}
       IN RecipientsOf(sendLog, a) =
            IF serving # {}
              THEN SubSeq(administrators, 1, drain[CHOOSE c \in serving : TRUE].idx)
              ELSE administrators
  /\ (\E i \in 1..Len(sendLog) : sendLog[i].result = "failed") /\ alertQueue # <<>>
       => isProcessing /\ ActiveDrains # {}

\* C3 witness: the send to the first of two administrators was rejected, the
\* second administrator was served after it, and the loop has gone on to the
\* next alert.
C3_Witness ==
  /\ Len(sendLog) >= 2
  /\ sendLog[1].result = "failed"
  /\ sendLog[2].alert = sendLog[1].alert
  /\ sendLog[2].to # sendLog[1].to
  /\ Len(handed) >= 2
  /\ handed[1] = sendLog[1].alert

\* C9: resolving an alert again is rejected. A resolve request that arrives when
\* the alert is already resolved is answered with an error and writes nothing,
\* so is_resolved, resolved_by, resolved_at and resolution_notes stay as they
\* were; and no step sets a resolved alert back to unresolved.
C9_SecondResolveRejected ==
  [][ /\ \A r \in Requests :
           ( /\ request[r].pc = "idle"
             /\ request'[r].pc # "idle"
             /\ request'[r].alertId \in 1..Len(alerts)
             /\ alerts[request'[r].alertId].is_resolved )
           => ( /\ request'[r].pc = "done"
                /\ request'[r].status \in {400, 500}
                /\ alerts' = alerts )
      /\ \A a \in 1..Len(alerts) : alerts[a].is_resolved => alerts'[a].is_resolved ]_vars

\* C9 witness: a first request resolved the alert and a later one for the same
\* alert, sent after the first was answered, got 400.
C9_Witness ==
  \E r1, r2 \in Requests :
    /\ r1 < r2
    /\ request[r1].pc = "done" /\ request[r1].status = 200
    /\ request[r2].pc = "done" /\ request[r2].status = 400
    /\ request[r2].alertId = request[r1].alertId
    /\ request[r2].by # request[r1].by
    /\ alerts[request[r1].alertId].resolved_by = request[r1].by

\* C10: an alert is resolved at most once under concurrency. Of the resolve
\* requests for one alert at most one is answered 200, and the stored
\* resolved_by and resolution_notes are those of the request that succeeded.
C10_ResolvedAtMostOnce ==
  \A a \in 1..Len(alerts) :
    LET won == {r \in Requests : /\ request[r].pc = "done"
                                 /\ request[r].status = 200
                                 /\ request[r].alertId = a}
    IN /\ Cardinality(won) <= 1
       /\ \A r \in won : /\ alerts[a].resolved_by = request[r].by
                         /\ alerts[a].resolution_notes = NotesOf(request[r].by)

\* The value of a hexadecimal (or decimal) digit.
DigitValue(ch) == (CHOOSE i \in 1..16 : HexChars[i] = ch \/ UpperHexChars[i] = ch) - 1

RECURSIVE NumberIn(_, _)
NumberIn(t, base) ==
  IF t = <<>> THEN 0
  ELSE NumberIn(SubSeq(t, 1, Len(t) - 1), base) * base + DigitValue(t[Len(t)])

\* The four octets of a dotted-quad IPv4 address, <<>> for any other text.
Ipv4Octets(ip) ==
  LET q == Split(ip, ".")
  IN IF /\ Len(q) = 4
        /\ \A i \in 1..4 : /\ Len(q[i]) \in 1..3
                           /\ \A j \in 1..Len(q[i]) : q[i][j] \in Digits
                           /\ NumberIn(q[i], 10) <= 255
       THEN [i \in 1..4 |-> NumberIn(q[i], 10)]
       ELSE <<>>

\* The eight groups of an IPv6 address in its full or its "::" form (RFC 4291,
\* section 2.2), <<>> for any other text.
Ipv6Groups(ip) ==
  LET parts == Split(ip, ":")
      n == Len(parts)
      empty == {i \in 1..n : parts[i] = <<>>}
      hex(t) == Len(t) \in 1..4 /\ \A j \in 1..Len(t) : t[j] \in HexDigits
      first == CHOOSE i \in empty : \A j \in empty : i <= j
      last == CHOOSE i \in empty : \A j \in empty : j <= i
      left == SubSeq(parts, 1, first - 1)
      right == SubSeq(parts, last + 1, n)
      value(ps) == [i \in 1..Len(ps) |-> NumberIn(ps[i], 16)]
  IN IF empty = {}
       THEN IF n = 8 /\ \A i \in 1..n : hex(parts[i]) THEN value(parts) ELSE <<>>
       ELSE IF /\ \A i \in first..last : i \in empty
               /\ (1 \in empty => 2 \in empty)
               /\ (n \in empty => (n - 1) \in empty)
               /\ \A i \in 1..n : i \notin empty => hex(parts[i])
               /\ Len(left) + Len(right) <= 7
              THEN value(left) \o [i \in 1..(8 - Len(left) - Len(right)) |-> 0] \o value(right)
              ELSE <<>>

\* The address is no IPv4 or IPv6 address, or lies in an RFC 1918 range
\* (10/8, 172.16/12, 192.168/16), in a loopback range (127/8, ::1) or in a
\* link-local range (169.254/16, fe80::/10).
MalformedOrPrivate(ip) ==
  LET v4 == Ipv4Octets(ip)
      v6 == Ipv6Groups(ip)
  IN \/ v4 = <<>> /\ v6 = <<>>
     \/ /\ v4 # <<>>
        /\ \/ v4[1] = 10
           \/ v4[1] = 172 /\ v4[2] \in 16..31
           \/ v4[1] = 192 /\ v4[2] = 168
           \/ v4[1] = 127
           \/ v4[1] = 169 /\ v4[2] = 254
     \/ /\ v6 # <<>>
        /\ \/ v6 = <<0, 0, 0, 0, 0, 0, 0, 1>>
           \/ v6[1] \in 65152..65215

\* getLocationInfo is called on g in this step
CallStarts(g) ==
  /\ geoCall[g].pc \in {"idle", "returned"}
  /\ geoCall'[g].pc # "idle"
  /\ geoCall'[g] # geoCall[g]

\* the cache lookup of call g resolves in this step
LookupResolves(g) ==
  /\ geoCall[g].pc = "getCachedLocation"
  /\ geoCall'[g].pc # "getCachedLocation"

\* C4: in any rolling 60-second interval the number of upstream requests
\* admitted by checkRateLimit is at most the current provider's rateLimit.
\* apiCalls holds the requests issued in the 60 seconds up to now.
C4_RollingWindowBudget ==
  currentProvider \in Providers => Len(apiCalls) <= ProviderRateLimit(currentProvider)

\* C5: when the cache lookup gives an entry whose last_updated is less than 24
\* hours old, getLocationInfo returns that entry and issues no upstream request,
\* consumes no rate-limit budget and writes no cache entry; an entry aged 24
\* hours or more is not served, and fetchFromAPI issues the upstream request
\* (unless the provider is unknown or its budget is used up).
C5_FreshCacheServedStaleRefetched ==
  [][ \A g \in GeoCalls :
        (LookupResolves(g) /\ geoCall'[g].cached # <<>>) =>
          LET entry == geoCall'[g].cached[1]
          IN /\ (now - entry.last_updated < 24 * 60 * 60 * 1000) =>
                  /\ geoCall'[g].pc = "returned"
                  /\ geoCall'[g].result = entry
                  /\ apiCalls' = apiCalls
                  /\ rateLimitCounter' = rateLimitCounter
                  /\ geoCache' = geoCache
             /\ (now - entry.last_updated >= 24 * 60 * 60 * 1000) =>
                  /\ geoCall'[g].result # entry
                  /\ ( /\ currentProvider \in Providers
                       /\ CurrentRequests(rateLimitCounter) < ProviderRateLimit(currentProvider) )
                     => /\ geoCall'[g].pc = "axios"
                        /\ apiCalls' = Append(apiCalls, now) ]_vars

\* C5 witness: a call was answered from a cache entry half a day old.
C5_Witness ==
  \E g \in GeoCalls :
    /\ geoCall[g].pc = "returned"
    /\ geoCall[g].cached # <<>>
    /\ geoCall[g].result = geoCall[g].cached[1]
    /\ now - geoCall[g].cached[1].last_updated = GeoBigStepMs

\* C6: for every address that is malformed or lies in an RFC 1918, loopback or
\* link-local range, getLocationInfo returns the default LocationInfo at once:
\* no cache lookup, no upstream request, no cache write.
C6_PrivateOrMalformedGetsDefault ==
  [][ \A g \in GeoCalls :
        (CallStarts(g) /\ MalformedOrPrivate(SampleIPs[geoCall'[g].ip])) =>
          /\ geoCall'[g].pc = "returned"
          /\ geoCall'[g].result = DefaultLocationInfo
          /\ apiCalls' = apiCalls
          /\ geoCache' = geoCache ]_vars

\* C7: when the provider's one-minute budget is used up, getLocationInfo for an
\* uncached public address returns the default LocationInfo in the step in
\* which the lookup resolves: no upstream request, no waiting, nothing raised.
C7_ExhaustedBudgetGivesDefault ==
  [][ \A g \in GeoCalls :
        ( /\ LookupResolves(g)
          /\ geoCache[geoCall[g].ip] = <<>>
          /\ currentProvider \in Providers
          /\ CurrentRequests(rateLimitCounter) >= ProviderRateLimit(currentProvider) )
        => /\ geoCall'[g].pc = "returned"
           /\ geoCall'[g].result = DefaultLocationInfo
           /\ apiCalls' = apiCalls
           /\ geoCache' = geoCache
           /\ now' = now ]_vars

\* C7 witness: a call for the uncached public address came back with the
\* default while the budget of the minute was used up by others.
C7_Witness ==
  \E g \in GeoCalls :
    /\ geoCall[g].pc = "returned"
    /\ geoCall[g].ip = 1
    /\ geoCall[g].outcome = "none"
    /\ geoCall[g].result = DefaultLocationInfo
    /\ geoCache[1] = <<>>
    /\ currentProvider \in Providers
    /\ Len(apiCalls) = ProviderRateLimit(currentProvider)
    /\ CurrentRequests(rateLimitCounter) >= ProviderRateLimit(currentProvider)

\* C8: getLocationInfo never raises, and after an upstream timeout, a non-2xx
\* answer, or a malformed or unsuccessful payload the value it returns is the
\* default LocationInfo.
C8_UpstreamFailureGivesDefault ==
  \A g \in GeoCalls :
    /\ geoCall[g].pc \in {"idle", "getCachedLocation", "axios", "saveCachedLocation", "returned"}
    /\ (geoCall[g].pc = "returned" /\ geoCall[g].outcome \in {"rejected", "fail", "malformed", "empty"})
         => geoCall[g].result = DefaultLocationInfo

\* The step in which login l leaves the position named
Leaves(l, pc) == login[l].pc = pc /\ login'[l].pc # pc

\* C11: detectAnomalies returns the assessment also when the INSERT of
\* recordLoginLog fails: whenever the INSERT resolves, either way, the route
\* receives the assessment and goes on to read the auto-block setting.
C11_RecordFailureStillReturns ==
  [][ \A l \in Logins :
        Leaves(l, "recordLoginLog") =>
          /\ login'[l].detect = "returned"
          /\ login'[l].pc = "autoBlock" ]_vars

\* C12: a login with valid credentials is not failed or held up by detection
\* or notification errors. A request past the password check is answered 200
\* unless the auto-block refused it (403) or the UPDATE of last_login failed
\* (500); whatever detectAnomalies, the auto-block read, createLoginAnomalyAlert
\* or addTrustedDevice did, the route goes on to save the session; and it goes on
\* in the step in which createSecurityAlert returns, while the delivery it
\* started is still running.
C12_LoginSurvivesDetectionErrors ==
  [][ \A l \in Logins :
        /\ (login[l].pc \notin {"idle", "done"} /\ login'[l].pc = "done") =>
             \/ login'[l].status = 200 /\ login[l].pc = "updateLastLogin"
             \/ login'[l].status = 500 /\ login[l].pc = "updateLastLogin"
             \/ login'[l].status = 403 /\ login'[l].shouldBlock
        /\ (login[l].pc \in {"recordLoginLog", "autoBlock", "createLoginAnomalyAlert",
                             "shouldSendNotification", "addTrustedDevice"}
            /\ ~login'[l].shouldBlock
            /\ login'[l].threw # "none")
             => login'[l].pc = "saveUserSession"
        /\ (Leaves(l, "shouldSendNotification") /\ pushed' # pushed) => isProcessing' ]_vars

\* C12 witness: a request whose detectAnomalies threw was answered 200.
C12_Witness ==
  \E l \in Logins :
    /\ login[l].pc = "done"
    /\ login[l].status = 200
    /\ login[l].detect = "threw"

\* C13: once POST /logout or terminate-session was answered for a session, the
\* session's row of user_login_logs has is_active = FALSE, so that
\* checkConcurrentSessions no longer counts it.
C13_EndedSessionIsInactive ==
  \A i \in LogIds :
    loginLogs[i].session_token_hash \in ended => ~loginLogs[i].is_active

\* The sum of the riskScore values of a list of anomalies
SumRiskScores(anomalies) ==
  LET F[i \in 0..Len(anomalies)] == IF i = 0 THEN 0 ELSE F[i - 1] + anomalies[i].riskScore
  IN F[Len(anomalies)]

\* C14: the total risk score of a detection pass is the sum of the riskScore
\* values of its anomalies, as accumulated and as returned, and the risk_score
\* of the row recordLoginLog inserts is that same total.
C14_TotalIsSumOfAnomalies ==
  [][ \A l \in Logins :
        /\ login'[l].score = SumRiskScores(login'[l].anomalies)
        /\ (Leaves(l, "recordLoginLog") /\ Len(loginLogs') = Len(loginLogs) + 1) =>
             /\ login'[l].detect = "returned"
             /\ loginLogs'[Len(loginLogs')].risk_score = SumRiskScores(login'[l].anomalies) ]_vars

\* C14 witness: an assessment with three anomalies was returned and recorded.
C14_Witness ==
  \E l \in Logins :
    /\ login[l].pc = "autoBlock"
    /\ Len(login[l].anomalies) >= 3
    /\ loginLogs # <<>>
    /\ loginLogs[Len(loginLogs)].session_token_hash = SessionTokenHash(l)
    /\ loginLogs[Len(loginLogs)].risk_score = login[l].score

\* The risk threshold configured in the security settings, 50 when none is
RiskThreshold ==
  IF loginSettings.high_risk_threshold = <<>> THEN 50
  ELSE loginSettings.high_risk_threshold[1]

\* C15: is_suspicious is true exactly when the total risk score is at least the
\* configured threshold (50 when nothing is configured), in the recorded row
\* and in the assessment on which the route raises its alert.
C15_SuspiciousAtConfiguredThreshold ==
  /\ \A i \in LogIds :
       loginLogs[i].is_suspicious <=> loginLogs[i].risk_score >= RiskThreshold
  /\ \A l \in Logins :
       login[l].pc \in {"createLoginAnomalyAlert", "shouldSendNotification"}
         => login[l].score >= RiskThreshold

\* The fingerprint of the device of login l
FingerprintOf(l) == GenerateDeviceFingerprint(login[l].ua, login[l].ip)

\* The anomalies of login l after the step are those before it and one more
Pushes(l, type, score) ==
  login'[l].anomalies = Append(login[l].anomalies, [type |-> type, riskScore |-> score])

\* C16: with the new-device rule loaded and the queries of the check answered,
\* checkDeviceAnomaly reports nothing for a trusted fingerprint, nothing when
\* the user has no trusted device at the time of the count, whatever the
\* fingerprint, and new_device with the rule's score when the fingerprint is
\* not trusted and the user has at least one trusted device.
C16_NewDeviceOnlyBesideTrustedOnes ==
  [][ \A l \in Logins :
        /\ Leaves(l, "checkDeviceAnomaly") =>
             /\ login'[l].anomalies = login[l].anomalies
             /\ login'[l].pc = "checkDeviceCount" =>
                  login[l].rule # <<>> /\ ~KnownDevice(UserId, FingerprintOf(l))
             /\ (login'[l].pc = "checkTimeAnomaly" /\ login[l].rule # <<>> /\ ~login'[l].caught)
                  => KnownDevice(UserId, FingerprintOf(l))
        /\ (Leaves(l, "checkDeviceCount") /\ ~login'[l].caught) =>
             /\ login'[l].pc = "checkTimeAnomaly"
             /\ ~KnownDevice(UserId, FingerprintOf(l))
             /\ IF DeviceCount(UserId) = 0
                  THEN login'[l].anomalies = login[l].anomalies
                  ELSE Pushes(l, "new_device", RuleScore("new_device")) ]_vars

\* C16 witness: a login from a device that is not trusted, of a user with a
\* trusted device, was given the new_device anomaly.
C16_Witness ==
  \E l \in Logins :
    /\ login[l].pc = "checkTimeAnomaly"
    /\ login[l].anomalies # <<>>
    /\ login[l].anomalies[Len(login[l].anomalies)].type = "new_device"
    /\ ~KnownDevice(UserId, FingerprintOf(l))
    /\ DeviceCount(UserId) > 0

\* The positions of a request inside the try block of POST /login, once the checks
\* of detectAnomalies are done
TryBlockEnd == {"recordLoginLog", "autoBlock", "createLoginAnomalyAlert",
                "shouldSendNotification", "addTrustedDevice"}

\* C17: when the detection block of a login ends, the device of a login whose
\* total risk score is below 30 is in the user's trusted devices, and a login
\* whose score is 30 or more has left the trusted devices as they were.
C17_LowScoreTrustsDevice ==
  [][ \A l \in Logins :
        (login[l].pc \in TryBlockEnd /\ login'[l].pc \in {"saveUserSession", "done"}) =>
          IF login[l].score < 30
            THEN <<UserId, FingerprintOf(l)>> \in trustedDevices'
            ELSE trustedDevices' = trustedDevices ]_vars

\* The rows of user_login_logs from the address that are at most the given
\* number of minutes old
RecordedAttempts(ipAddress, minutes) ==
  {i \in LogIds : /\ loginLogs[i].ip_address = ipAddress
                  /\ now - loginLogs[i].login_time <= minutes * 60 * 1000}

\* C18: with the frequency rule loaded and the COUNT answered, a login is given
\* login_frequency, with the rule's score, if and only if the attempts recorded
\* from its address within the last time_window_minutes number at least
\* max_attempts: the attempt that follows max_attempts recorded ones inside the
\* window triggers it, earlier ones do not.
C18_FrequencyAtMaxAttempts ==
  [][ \A l \in Logins :
        (Leaves(l, "checkLoginFrequency") /\ login[l].rule # <<>> /\ ~login'[l].caught) =>
          IF Cardinality(RecordedAttempts(login[l].ip,
                           RuleConditions("login_frequency").time_window_minutes))
               >= RuleConditions("login_frequency").max_attempts
            THEN Pushes(l, "login_frequency", RuleScore("login_frequency"))
            ELSE login'[l].anomalies = login[l].anomalies ]_vars

\* C18 witness: the login that follows exactly max_attempts recorded attempts
\* from its address inside the window was given login_frequency.
C18_Witness ==
  \E l \in Logins :
    /\ login[l].pc = "checkDeviceAnomaly"
    /\ login[l].anomalies # <<>>
    /\ login[l].anomalies[Len(login[l].anomalies)].type = "login_frequency"
    /\ Cardinality(RecordedAttempts(login[l].ip, 30)) = MaxAttempts
    /\ now > 0

\* The types of the anomalies a list holds
AnomalyTypes(anomalies) == {anomalies[i].type : i \in 1..Len(anomalies)}

\* C19: a rule-driven check whose rule is absent from the registry when it looks
\* it up reports nothing and raises nothing, and detectAnomalies goes on with
\* the next check.
C19_AbsentRuleIsNoOp ==
  [][ \A l \in Logins :
        /\ Leaves(l, "checkGeographicAnomaly") =>
             /\ login'[l].pc = "checkLoginFrequency"
             /\ login'[l].detect = "running"
             /\ GetRule("geographic") = <<>> =>
                  "geographic_anomaly" \notin AnomalyTypes(login'[l].anomalies)
             /\ GetRule("suspicious_ip") = <<>> =>
                  "ip_reputation" \notin AnomalyTypes(login'[l].anomalies)
        /\ (Leaves(l, "checkLoginFrequency") /\ login[l].rule = <<>>) =>
             /\ login'[l].pc = "checkDeviceAnomaly"
             /\ login'[l].detect = "running"
             /\ login'[l].anomalies = login[l].anomalies
        /\ (Leaves(l, "checkDeviceAnomaly") /\ login[l].rule = <<>>) =>
             /\ login'[l].pc = "checkTimeAnomaly"
             /\ login'[l].detect = "running"
             /\ login'[l].anomalies = login[l].anomalies
        /\ (Leaves(l, "checkTimeAnomaly") /\ login[l].rule = <<>>) =>
             /\ login'[l].pc = "checkConcurrentSessions"
             /\ login'[l].detect = "running"
             /\ login'[l].anomalies = login[l].anomalies ]_vars

\* C19 witness: with no rule in the registry a login from the proxy address,
\* outside normal hours, went through every check and was given the one anomaly
\* that needs no rule.
C19_Witness ==
  \E l \in Logins :
    /\ riskRules = EmptyMap
    /\ login[l].pc = "recordLoginLog"
    /\ login[l].loc = LocLondonProxy
    /\ AnomalyTypes(login[l].anomalies) = {"concurrent_sessions"}

\* The names of the rules enabled in the rule store
EnabledRuleNames(store) == {name \in RuleNames : store[name].is_enabled}

\* C20: when loadRiskRules completes, the registry holds exactly the rules that
\* are enabled in the rule store at that moment, so that a rule disabled since
\* the previous load is gone and a second load of an unchanged store changes
\* nothing.
C20_LoadHoldsExactlyEnabledRules ==
  [][ (loadCall.pc = "query" /\ loadCall'.pc = "idle" /\ loadCall'.outcome = "loaded") =>
        /\ DOMAIN riskRules' = EnabledRuleNames(ruleStore)
        /\ \A name \in DOMAIN riskRules' : riskRules'[name] = LoadedRule(ruleStore[name]) ]_vars

\* C21: a rule whose conditions are malformed JSON is left out alone: when the
\* SELECT of loadRiskRules was answered, every enabled rule with well-formed
\* conditions is in the registry once the load is over, wherever the malformed
\* rule stands among the rows.
C21_MalformedRuleSkippedAlone ==
  [][ (loadCall.pc = "query" /\ loadCall'.pc = "idle" /\ loadCall'.outcome # "rejected") =>
        \A name \in EnabledRuleNames(ruleStore) :
          ruleStore[name].conditions = "json" => name \in DOMAIN riskRules' ]_vars

(***************************************************************************)
(* createLoginAnomalyAlert and the decision to notify                      *)
(***************************************************************************)

\* createLoginAnomalyAlert, lines 397-421: the severity is derived from
\* totalRiskScore and createSecurityAlert is called with it
CreateLoginAnomalyAlert(c, totalRiskScore, insertOk) ==
  CreateSecurityAlertInsert(c, LoginSeverity(totalRiskScore), insertOk)

\* createLoginAnomalyAlert called with any score, up to the return of the alert id
NextAlertCreate ==
  \/ \E c \in 1..MaxFewCalls, totalRiskScore \in 0..MaxRiskScore, insertOk \in BOOLEAN :
       CreateLoginAnomalyAlert(c, totalRiskScore, insertOk)
  \/ \E c \in Calls, readOk \in BOOLEAN : CreateSecurityAlertNotify(c, readOk)

\* Neither step reads the transporter or the administrators.
InitAlertCreate == InitNotify /\ emailTransporter = NULL /\ administrators = <<>>

SpecAlertCreate == InitAlertCreate /\ [][NextAlertCreate]_vars

Range(seq) == {seq[i] : i \in 1..Len(seq)}

\* C22: createLoginAnomalyAlert stores a row whose severity follows from the score
\* alone: low below 40, medium from 40 to 59, high from 60 to 79, critical from
\* 80; the row is there and unchanged when createSecurityAlert returns, whether
\* the alert was pushed for notification or not.
C22_SeverityByScoreRowAlways ==
  [][ /\ \A c \in Calls :
           call[c].pc = "idle" /\ call'[c].pc = "inserted" =>
             /\ alerts' = Append(alerts, NewAlertRow(call'[c].severity))
             /\ \A totalRiskScore \in 0..MaxRiskScore :
                  LoginSeverity(totalRiskScore) = call'[c].severity =>
                    call'[c].severity =
                      CASE totalRiskScore < 40 -> "low"
                        [] totalRiskScore \in 40..59 -> "medium"
                        [] totalRiskScore \in 60..79 -> "high"
                        [] OTHER -> "critical"
      /\ \A c \in Calls, readOk \in BOOLEAN :
           CreateSecurityAlertNotify(c, readOk) =>
             /\ alerts' = alerts
             /\ call[c].alertId \in 1..Len(alerts)
             /\ alerts[call[c].alertId].severity = call[c].severity ]_vars

\* C22: one alert of a score below 40 was stored and not pushed, another of a
\* score of 80 or more was stored and pushed, and both calls returned
C22_Witness ==
  \E c1, c2 \in Calls :
    /\ call[c1].pc = "returned" /\ call[c2].pc = "returned"
    /\ alerts[call[c1].alertId].severity = "low" /\ call[c1].alertId \notin Range(pushed)
    /\ alerts[call[c2].alertId].severity = "critical" /\ call[c2].alertId \in Range(pushed)

DistanceLatitudes == {NULL, "0", "60", "-60"}

DistanceLongitudes == {NULL, "0", "60", "-120", "180"}

NextDistance ==
  \/ \E lat1, lat2 \in DistanceLatitudes, lon1, lon2 \in DistanceLongitudes :
       CalculateDistanceCall(lat1, lon1, lat2, lon2)
  \/ CalculateDistanceReturn

SpecDistance == InitRules /\ [][NextDistance]_vars

\* C24: for coordinates that are all present (zero included) calculateDistance
\* gives a number, the same number with the two points exchanged, and 0 for twice
\* the same point; it gives null only when a coordinate is missing.
C24_DistanceSymmetricZeroOnSame ==
  distanceCall.pc = "returned" =>
    LET d == distanceCall
        present == d.lat1 # NULL /\ d.lon1 # NULL /\ d.lat2 # NULL /\ d.lon2 # NULL
    IN /\ present => /\ d.result # <<>>
                     /\ d.result = CalculateDistance(d.lat2, d.lon2, d.lat1, d.lon1)
                     /\ (d.lat1 = d.lat2 /\ d.lon1 = d.lon2) => d.result = <<0>>
       /\ d.result = <<>> => ~present

\* C25: getLocationInfo calls for one address are not serialized: every call that
\* finds no valid cache entry goes upstream, whatever the other calls are doing,
\* and each request that goes upstream is counted once by the rate limiter; the
\* cache holds at most one entry per address.
C25_RacingCallsEachSpendBudget ==
  [][ /\ \A g \in GeoCalls :
           (geoCall[g].pc = "getCachedLocation" /\ geoCall'[g].pc = "axios") =>
             /\ SumCounts(rateLimitCounter') = SumCounts(KeptCounters(rateLimitCounter)) + 1
             /\ Len(apiCalls') = Len(apiCalls) + 1
      /\ \A ip \in IPs : Len(geoCache'[ip]) <= 1 ]_vars

\* C25: two calls for the same address both found the cache empty, both went
\* upstream, both were counted and both wrote the cache, which holds one entry
C25_Witness ==
  /\ \A g \in GeoCalls : /\ geoCall[g].pc = "returned"
                         /\ geoCall[g].ip = geoCall[1].ip
                         /\ geoCall[g].cached = <<>>
                         /\ geoCall[g].outcome = "success"
  /\ Len(apiCalls) = 2
  /\ SumCounts(rateLimitCounter) = 2
  /\ Len(geoCache[geoCall[1].ip]) = 1

\* The positions of a detectAnomalies call after its first check has looked up
\* its rule and before its last rule-driven check has
AmidChecks == {"checkLoginFrequency", "checkDeviceAnomaly", "checkDeviceCount", "checkTimeAnomaly"}

\* C26: while a detectAnomalies call is between its first and its last check the
\* rule registry does not change.
C26_RegistryFixedDuringPass ==
  [][ (\E l \in Logins : login[l].pc \in AmidChecks) => riskRules' = riskRules ]_vars

(***************************************************************************)
(* checkGeographicAnomaly over longer histories                            *)
(***************************************************************************)

\* rows of user_login_logs in the histories of the geographic check
MaxGeoHistory == 6

\* The ages of the earlier logins, in hours: inside the rule's window, and at its end
GeoAges == {1, 6}

\* Where the earlier logins came from: the default for a login that was not located
GeoPlaces == {LocTokyo, LocLondonProxy, DefaultLocationInfo}

\* The time when the geographic check is made
GeoCheckTime == 8 * HourMs

\* Row i of k rows: a login from place p made age hours before GeoCheckTime, the
\* rows of an age one minute apart, in the order of their ids
GeoHistoryRow(i, k, p, age) ==
  NewLoginLogRow(UserId,
                 [session_token_hash |-> StoredSessionTokenHash(i), ip_address |-> 1,
                  latitude |-> p.latitude, longitude |-> p.longitude,
                  risk_score |-> 0, is_suspicious |-> FALSE],
                 GeoCheckTime - age * HourMs - (k - i) * 60 * 1000)

\* user_login_logs after up to MaxGeoHistory logins, the older ones first
GeoHistories(longest) ==
  UNION {
    { [i \in 1..k |-> GeoHistoryRow(i, k, place[i], IF i <= older THEN 6 ELSE 1)] :
        place \in [1..k -> GeoPlaces], older \in 0..k }
    : k \in 0..longest }

\* The detector with its rules loaded and a history of logins; the rest at rest
InitGeoCheck ==
  /\ now = GeoCheckTime
  /\ emailTransporter = NULL
  /\ alertQueue = <<>>
  /\ isProcessing = FALSE
  /\ alerts = [i \in 1..StoredAlerts |-> NewAlertRow("high")]
  /\ settings = [alert_administrators |-> "true"]
  /\ administrators = <<>>
  /\ call = [c \in Calls |-> IdleCall]
  /\ drain = [c \in Calls |-> IdleDrain]
  /\ pushed = <<>>
  /\ handed = <<>>
  /\ sendLog = <<>>
  /\ lastSendAt = NullTime
  /\ request = [r \in Requests |-> IdleRequest]
  /\ currentProvider = "ipapi"
  /\ rateLimitCounter = {}
  /\ geoCache = [ip \in IPs |-> <<>>]
  /\ geoCall = [g \in GeoCalls |-> IdleGeoCall]
  /\ apiCalls = <<>>
  /\ ruleStore = [name \in RuleNames |-> RuleRow(name, TRUE, "json")]
  /\ riskRules = SetRules(EmptyMap, SelectEnabledRules(ruleStore)).map
  /\ loadCall = [pc |-> "idle", outcome |-> "loaded"]
  /\ loginLogs \in GeoHistories(MaxGeoHistory)
  /\ trustedDevices = {}
  /\ loginSettings = [max_concurrent_sessions |-> <<>>, auto_block_high_risk |-> <<>>,
                      high_risk_threshold |-> <<>>]
  /\ userSessions = <<>>
  /\ ended = {}
  /\ login = [l \in Logins |-> IdleLogin]
  /\ distanceCall = IdleDistanceCall
  /\ configValues = InitialConfig
  /\ configRequest = IdleConfigRequest

\* A login up to the end of its geographic check
NextGeoCheck ==
  \E l \in Logins :
    \/ \E ip \in ClientIPs : LoginStart(l, ip, 1, TRUE)
    \/ \E loc \in LocationsOf(login[l].ip) : DetectLocation(l, loc)
    \/ \E queryOk \in BOOLEAN : DetectGeographic(l, queryOk)

SpecGeoCheck == InitGeoCheck /\ [][NextGeoCheck]_vars

\* The located logins of the user in the last 24 hours
LocatedLogins ==
  {i \in LogIds : /\ loginLogs[i].user_id = UserId
                  /\ loginLogs[i].latitude # NULL /\ loginLogs[i].longitude # NULL
                  /\ now - loginLogs[i].login_time <= 24 * HourMs}

\* Those of the five most recent located logins that are farther from loc than
\* the rule allows and younger than its window
FarAndRecent(loc, rule) ==
  {i \in LocatedLogins :
     /\ Cardinality({j \in LocatedLogins : loginLogs[j].login_time > loginLogs[i].login_time}) < 5
     /\ LET distance == CalculateDistance(loc.latitude, loc.longitude,
                                          loginLogs[i].latitude, loginLogs[i].longitude)
        IN distance # <<>> /\ distance[1] > rule.conditions.max_distance_km
     /\ now - loginLogs[i].login_time < rule.conditions.time_window_hours * HourMs}

\* C27: with the geographic rule loaded and the SELECT answered, the geographic
\* check reports geographic_anomaly with the rule's score exactly when the
\* current location has coordinates and one of the five most recent located
\* logins of the last 24 hours is far and recent; the previous login it names is
\* the most recent of those.
C27_GeographicIffFarAndRecent ==
  [][ \A l \in Logins :
        (Leaves(l, "checkGeographicAnomaly") /\ ~login'[l].caught
           /\ GetRule("geographic") # <<>>) =>
          LET loc == login[l].loc
              rule == GetRule("geographic")[1]
              located == loc.latitude # NULL /\ loc.longitude # NULL
              hits == IF located THEN FarAndRecent(loc, rule) ELSE {}
              geoAnomaly == CheckGeographicAnomaly(UserId, loc, TRUE)
          IN /\ geoAnomaly.isAnomalous <=> hits # {}
             /\ [type |-> "geographic_anomaly", riskScore |-> rule.riskScore]
                  \in Range(login'[l].anomalies) <=> hits # {}
             /\ hits # {} =>
                  /\ geoAnomaly.previousLogin \in hits
                  /\ \A j \in hits :
                       loginLogs[j].login_time <= loginLogs[geoAnomaly.previousLogin].login_time
          ]_vars

\* C27 witness: six located logins within the window, the oldest of them far from
\* the current location and the five most recent at it: the check held no anomaly
C27_Witness ==
  \E l \in Logins :
    /\ login[l].pc = "checkLoginFrequency" /\ ~login[l].caught
    /\ login[l].loc = LocLondonProxy
    /\ Len(loginLogs) = 6
    /\ \A i \in LogIds : now - loginLogs[i].login_time < 6 * HourMs
    /\ loginLogs[1].latitude = LocTokyo.latitude
    /\ \A i \in 2..6 : loginLogs[i].latitude = LocLondonProxy.latitude
    /\ "geographic_anomaly" \notin AnomalyTypes(login[l].anomalies)

\* C28: delivery is fire-and-forget. No alert is handed to sendNotifications
\* twice; an alert enters alertQueue only by its push in createSecurityAlert,
\* never again afterwards, whatever became of its delivery; and
\* createSecurityAlert returns the id of an alert it pushed before any mail for
\* that alert has been sent.
C28_FireAndForgetNoRetry ==
  /\ [](\A i, j \in 1..Len(handed) : i # j => handed[i] # handed[j])
  /\ [][ /\ \A id \in Range(alertQueue') :
              id \in Range(alertQueue) \/ id \notin Range(pushed)
         /\ \A c \in Calls :
              (call[c].pc = "inserted" /\ call'[c].pc = "returned") =>
                /\ call'[c].alertId = call[c].alertId
                /\ RecipientsOf(sendLog', call[c].alertId) = <<>> ]_vars

\* C28 witness: two alerts were pushed, the mail for the first was rejected, the
\* loop has gone on to the second and the queue is empty
C28_Witness ==
  /\ Len(pushed) = 2
  /\ handed = pushed
  /\ alertQueue = <<>>
  /\ \E c \in Calls : call[c].pc = "returned" /\ call[c].alertId = pushed[1]
  /\ \E i \in 1..Len(sendLog) : sendLog[i].alert = pushed[1] /\ sendLog[i].result = "failed"

(***************************************************************************)
(* The notification queue when every send and every timer completes        *)
(***************************************************************************)

\* The timer of a sleeping loop runs
TickWhileSleeping ==
  /\ \E c \in Calls : drain[c].pc = "sleep" /\ now < drain[c].timer + QueueSpacingMs
  /\ \E d \in NotifySteps : now' = now + d
  /\ UNCHANGED <<emailTransporter, alertQueue, isProcessing, alerts, settings,
                 administrators, call, drain, pushed, handed, sendLog, lastSendAt, outsideNotify>>

NextNotifyLive ==
  \/ \E c \in 1..MaxFewCalls, sev \in NotifySeverities, insertOk \in BOOLEAN :
       CreateSecurityAlertInsert(c, sev, insertOk)
  \/ \E c \in Calls, readOk \in BOOLEAN : CreateSecurityAlertNotify(c, readOk)
  \/ \E c \in Calls, queryOk \in BOOLEAN : DrainGetAdministrators(c, queryOk)
  \/ \E c \in Calls : DrainGetUserInfo(c)
  \/ \E c \in Calls, contentOk \in BOOLEAN : DrainGetEmailTemplate(c, contentOk)
  \/ \E c \in Calls, ok \in BOOLEAN : DrainSendMailSettled(c, ok)
  \/ \E c \in Calls : DrainWake(c)
  \/ TickWhileSleeping

\* At most one administrator: the fate of the queue does not depend on their number
InitNotifyLive == InitNotify /\ Len(administrators) <= 1

\* Every query, sendMail call and timer of the worker completes; callers of
\* createSecurityAlert may stop calling.
SpecNotifyLive ==
  /\ InitNotifyLive
  /\ [][NextNotifyLive]_vars
  /\ WF_vars(\E c \in Calls, queryOk \in BOOLEAN : DrainGetAdministrators(c, queryOk))
  /\ WF_vars(\E c \in Calls : DrainGetUserInfo(c))
  /\ WF_vars(\E c \in Calls, contentOk \in BOOLEAN : DrainGetEmailTemplate(c, contentOk))
  /\ WF_vars(\E c \in Calls, ok \in BOOLEAN : DrainSendMailSettled(c, ok))
  /\ WF_vars(\E c \in Calls : DrainWake(c))
  /\ WF_vars(TickWhileSleeping)

\* The ids security_alerts can hold
AlertIds == 1..(StoredAlerts + MaxFewCalls)

\* C29: no queued alert is stranded. Whenever control is back in the event loop a
\* non-empty alertQueue has isProcessing set and a loop that is running; and
\* every alert pushed is eventually handed to sendNotifications.
C29_NoAlertStranded ==
  /\ [](alertQueue # <<>> => isProcessing /\ ActiveDrains # {})
  /\ \A id \in AlertIds : (id \in Range(pushed)) ~> (id \in Range(handed))

\* C29 witness: the loop sleeps after the alert it was started for, and another
\* alert waits in the queue
C29_Witness ==
  /\ Len(handed) = 1
  /\ Len(alertQueue) = 1
  /\ \E c \in Calls : drain[c].pc = "sleep" /\ drain[c].alert = handed[1]

SpecConfig == InitRules /\ [][NextConfig]_vars

\* C30: a PUT /config request answered 400 leaves every setting as it was: the
\* settings are changed only by requests that were accepted as a whole.
C30_RejectedUpdateChangesNothing ==
  configRequest.status = 400 => configValues = InitialConfig

====
